---- MODULE Spec2Model ----
(***************************************************************************)
(* Model of roundup's acquisition engine: the three index providers (YTS,  *)
(* EZTV, TheRARBG) behind the TorrentSearch trait and                      *)
(* Torrenter::find_torrent, which fans out to them either one at a time    *)
(* or concurrently and applies the minimum-quality floor.                  *)
(*                                                                         *)
(* Option<T> is modelled as a sequence: None is <<>>, Some(x) is <<x>>.    *)
(* A Result<Vec<TorrentItem>> is a record [ok, items].                     *)
(***************************************************************************)
EXTENDS Integers, Sequences, FiniteSets, TLC

\* ------------------------------------------------------------------ bounds
MaxSeason == 2
MaxEpisode == 1
MaxSeeds == 2
MaxRows == 2
MaxDesired == 1
MaxLen == 3
MaxIMDBEpisode == 2
MaxWanted == 3
MaxRecords == 2
MaxFound == 2
MaxPasses == 2

\* The minutes that pass in one step of the clock, and the minute the clock
\* stops at.
Pace == 15

MaxNow == 30

\* The rounds of Torrenter::new that are counted.
MaxRounds == 2

\* ------------------------------------------------------------ Option<T>
None == <<>>
Some(x) == <<x>>
unwrap(o) == o[1]
is_some(o) == o # <<>>

\* ------------------------------------------------------- MediaQuality
\* The enum's variants in declaration order.
MediaQuality ==
  <<"Unknown", "Cam", "Telesync", "_480p", "_720p", "_1080p",
    "BetterThan1080p", "_2160p", "_4320p">>

Qualities == {MediaQuality[i] : i \in 1..Len(MediaQuality)}

\* A declaration order in which BetterThan1080p comes after _2160p.
AsU8Swapped(q) ==
  LET i == CHOOSE k \in 1..Len(MediaQuality) : MediaQuality[k] = q
  IN  IF q = "BetterThan1080p" THEN 7 ELSE IF q = "_2160p" THEN 6 ELSE i - 1

\* `quality as u8`, and the rank #[derive(Ord)] compares by: the variant's
\* position in the declaration, counted from 0.
AsU8(q) == (CHOOSE k \in 1..Len(MediaQuality) : MediaQuality[k] = q) - 1

\* Ordering of a.cmp(&b) on integers.
cmp(a, b) == IF a < b THEN "Less" ELSE IF a = b THEN "Equal" ELSE "Greater"

\* ---------------------------------------------------------- TorrentItem
TorrentItem(quality, season, episode, seeds, source) ==
  [quality |-> quality, season |-> season, episode |-> episode,
   seeds |-> seeds, source |-> source]

\* What a call of site.search ends in: Ok(items), Err(..), or a panic that
\* unwinds through the caller.
Ok(items) == [ok |-> TRUE, panic |-> FALSE, items |-> items]
Err == [ok |-> FALSE, panic |-> FALSE, items |-> <<>>]
Panic == [ok |-> FALSE, panic |-> TRUE, items |-> <<>>]

\* i32::to_string on the numbers the listings use, and str::parse::<i32>,
\* which is None (an Err) for a string that is no number.
to_string(n) ==
  CASE n = 0 -> "0"
    [] n = 1 -> "1"
    [] n = 2 -> "2"
    [] n = 3 -> "3"
    [] n = 4 -> "4"

parse_i32(str) ==
  IF \E n \in 0..4 : to_string(n) = str
  THEN Some(CHOOSE n \in 0..4 : to_string(n) = str)
  ELSE None

\* -------------------------------------------------- sort_by comparators
\* TheRARBG, show search: season, episode ascending; quality, seeds descending.
CmpTheRARBGShow(a, b) ==
  IF unwrap(a.season) = unwrap(b.season)
  THEN IF unwrap(a.episode) = unwrap(b.episode)
       THEN LET qual_ordering == cmp(AsU8(b.quality), AsU8(a.quality))
            IN  IF qual_ordering = "Equal"
                THEN cmp(unwrap(b.seeds), unwrap(a.seeds))
                ELSE qual_ordering
       ELSE cmp(unwrap(a.episode), unwrap(b.episode))
  ELSE cmp(unwrap(a.season), unwrap(b.season))

\* TheRARBG, movie search: quality, seeds descending.
CmpTheRARBGMovie(a, b) ==
  LET qual_ordering == cmp(AsU8(b.quality), AsU8(a.quality))
  IN  IF qual_ordering = "Equal"
      THEN cmp(unwrap(b.seeds), unwrap(a.seeds))
      ELSE qual_ordering

\* EZTV: season, episode ascending; quality descending.
CmpEZTV(a, b) ==
  IF unwrap(a.season) = unwrap(b.season)
  THEN IF unwrap(a.episode) = unwrap(b.episode)
       THEN cmp(AsU8(b.quality), AsU8(a.quality))
       ELSE cmp(unwrap(a.episode), unwrap(b.episode))
  ELSE cmp(unwrap(a.season), unwrap(b.season))

\* EZTV, the raw rows before filtering: seeds descending.
CmpEZTVSeeds(a, b) == cmp(b.seeds, a.seeds)

Compare(kind, a, b) ==
  CASE kind = "TheRARBGShow" -> CmpTheRARBGShow(a, b)
    [] kind = "TheRARBGMovie" -> CmpTheRARBGMovie(a, b)
    [] kind = "EZTV" -> CmpEZTV(a, b)
    [] kind = "EZTVSeeds" -> CmpEZTVSeeds(a, b)

\* slice::sort_by is a stable sort: an element moves behind every element
\* that compares Less than it, and behind the elements before it that compare
\* Equal to it.
sort_by(kind, s) ==
  LET n == Len(s)
      Before(i) ==
        {j \in 1..n : \/ Compare(kind, s[j], s[i]) = "Less"
                      \/ Compare(kind, s[j], s[i]) = "Equal" /\ j < i}
      at == [i \in 1..n |-> Cardinality(Before(i)) + 1]
  IN  [k \in 1..n |-> s[CHOOSE i \in 1..n : at[i] = k]]

\* -------------------------------------------------- dedup_by predicates
\* same_bucket(a, b): a is the later element, b the one kept before it;
\* true removes a.
SameBucketTheRARBGShow(a, b) ==
  IF unwrap(a.season) = unwrap(b.season)
  THEN /\ unwrap(b.episode) = unwrap(a.episode)
       /\ a.quality = b.quality
       /\ unwrap(a.seeds) < unwrap(b.seeds)
  ELSE FALSE

SameBucketTheRARBGMovie(a, b) ==
  a.quality = b.quality /\ unwrap(a.seeds) < unwrap(b.seeds)

SameBucketEZTV(a, b) ==
  IF unwrap(a.season) = unwrap(b.season)
  THEN unwrap(b.episode) = unwrap(a.episode) /\ a.quality = b.quality
  ELSE FALSE

same_bucket(kind, a, b) ==
  CASE kind = "TheRARBGShow" -> SameBucketTheRARBGShow(a, b)
    [] kind = "TheRARBGMovie" -> SameBucketTheRARBGMovie(a, b)
    [] kind = "EZTV" -> SameBucketEZTV(a, b)

\* A dedup that compares every element with its predecessor in the input,
\* also when that predecessor was itself removed.
DedupByPredecessor(kind, s) ==
  LET kept[n \in 0..Len(s)] ==
        IF n = 0 THEN <<>>
        ELSE IF n = 1 THEN <<s[1]>>
        ELSE IF same_bucket(kind, s[n], s[n - 1]) THEN kept[n - 1]
        ELSE Append(kept[n - 1], s[n])
  IN  kept[Len(s)]

\* Vec::dedup_by: every element is compared with the last element kept so
\* far and removed when same_bucket holds.
dedup_by(kind, s) ==
  LET kept[n \in 0..Len(s)] ==
        IF n = 0 THEN <<>>
        ELSE IF n = 1 THEN <<s[1]>>
        ELSE LET front == kept[n - 1]
             IN  IF same_bucket(kind, s[n], front[Len(front)]) THEN front
                 ELSE Append(front, s[n])
  IN  kept[Len(s)]

\* ------------------------------------------------------------ providers
\* A raw response is [fail, rows]: fail stands for a request, status or
\* deserialisation error of the provider's first request, rows for the rows
\* of the listing otherwise.

\* YTS: the quality label of one torrent of the listing.
YTSQuality(label) ==
  CASE label = "480p" -> "_480p"
    [] label = "720p" -> "_720p"
    [] label = "1080p" -> "_1080p"
    [] label = "1080p.x265" -> "BetterThan1080p"
    [] label = "2160p" -> "_2160p"
    [] OTHER -> "Unknown"

YTSSearch(raw, missing_episodes) ==
  IF is_some(missing_episodes) THEN Err
  ELSE IF raw.fail THEN Err
  ELSE IF Len(raw.rows) = 0 THEN Err
  ELSE Ok([i \in 1..Len(raw.rows) |->
             TorrentItem(YTSQuality(raw.rows[i].quality), None, None, None, "YTS")])

\* EZTV: the word of the title that ends with "0p".
EZTVQuality(word) ==
  CASE word = "480p" -> "_480p"
    [] word = "720p" -> "_720p"
    [] word = "1080p" -> "_1080p"
    [] word = "2160p" -> "_2160p"
    [] OTHER -> "Unknown"

\* EZTV: a row of the listing as a TorrentItem; episode 0 of a title that
\* says "complete" (or names no episode) becomes the season pack -1.
EZTVItem(t) ==
  LET season == unwrap(parse_i32(t.season))
      parsed == unwrap(parse_i32(t.episode))
      episode == IF parsed = 0 /\ t.complete THEN -1 ELSE parsed
  IN  TorrentItem(EZTVQuality(t.quality), Some(season), Some(episode), None, "EZTV")

EZTVSearch(raw, tv_eps) ==
  IF ~is_some(tv_eps) THEN Err
  ELSE IF raw.fail THEN Err
  ELSE
    LET episodes == unwrap(tv_eps)
        HasSeeds(t) == t.seeds > 0
        seeded == sort_by("EZTVSeeds", SelectSeq(raw.rows, HasSeeds))
        Parses(t) == is_some(parse_i32(t.season)) /\ is_some(parse_i32(t.episode))
        Wanted(t) ==
          /\ \E e \in episodes : /\ e[1] = unwrap(parse_i32(t.season))
                                  /\ e[2] = unwrap(parse_i32(t.episode))
          /\ ~t.multi
        wanted == SelectSeq(seeded, Wanted)
        items == [i \in 1..Len(wanted) |-> EZTVItem(wanted[i])]
        Known(x) == x.quality # "Unknown"
        vec == SelectSeq(items, Known)
    IN  \* t.season.parse::<i32>().unwrap() on every seeded row
        IF \E i \in DOMAIN seeded : ~Parses(seeded[i]) THEN Panic
        ELSE Ok(dedup_by("EZTV", sort_by("EZTV", vec)))

\* TheRARBG: the word of the row's name that ends with "0p"; a row with
\* any other word is skipped.
TheRARBGQualityWords == {"480p", "720p", "1080p", "2160p"}

TheRARBGQuality(word) ==
  CASE word = "480p" -> "_480p"
    [] word = "720p" -> "_720p"
    [] word = "1080p" -> "_1080p"
    [] word = "2160p" -> "_2160p"

\* TheRARBG, parse_search_table_html: the rows of the search table that go
\* on to the detail page.  In a show search a row is kept when its name has
\* a "Season N" token (a pack, episode -1) or an SxxEyy token naming a
\* wanted episode; in a movie search every row is kept, with no episode.
TheRARBGParse(rows, tv_eps) ==
  IF is_some(tv_eps)
  THEN LET episodes == unwrap(tv_eps)
           Keep(r) ==
             /\ r.quality \in TheRARBGQualityWords
             /\ is_some(r.season) /\ is_some(r.episode)
             /\ \/ unwrap(r.episode) = -1
                \/ <<unwrap(r.season), unwrap(r.episode)>> \in episodes
       IN  SelectSeq(rows, Keep)
  ELSE LET Keep(r) == r.quality \in TheRARBGQualityWords
           kept == SelectSeq(rows, Keep)
       IN  [i \in 1..Len(kept) |-> [kept[i] EXCEPT !.season = None, !.episode = None]]

\* TheRARBG, the retain of a show search.
TheRARBGRetain(x, episodes) ==
  /\ is_some(x.season) /\ is_some(x.episode)
  /\ \/ <<unwrap(x.season), unwrap(x.episode)>> \in episodes
     \/ <<unwrap(x.season), -1>> \in episodes

TheRARBGSearch(raw, tv_eps) ==
  LET outputs == IF raw.fail THEN <<>> ELSE TheRARBGParse(raw.rows, tv_eps)
  IN  IF Len(outputs) = 0 THEN Err
      ELSE
        LET vec == [i \in 1..Len(outputs) |->
                          TorrentItem(TheRARBGQuality(outputs[i].quality), outputs[i].season,
                                      outputs[i].episode, Some(outputs[i].seeds),
                                      "TheRARBG")]
        IN  IF is_some(tv_eps)
            THEN LET Retained(x) == TheRARBGRetain(x, unwrap(tv_eps))
                 IN  Ok(dedup_by("TheRARBGShow",
                                 sort_by("TheRARBGShow", SelectSeq(vec, Retained))))
            ELSE Ok(dedup_by("TheRARBGMovie", sort_by("TheRARBGMovie", vec)))

\* site.search(search_term, imdb_id, tv_eps)
search(provider, raw, tv_eps) ==
  CASE provider = "YTS" -> YTSSearch(raw, tv_eps)
    [] provider = "EZTV" -> EZTVSearch(raw, tv_eps)
    [] provider = "TheRARBG" -> TheRARBGSearch(raw, tv_eps)

\* ------------------------------------------------- the provider responses
Seasons == 1..MaxSeason
Providers == {"YTS", "EZTV", "TheRARBG"}

SeqsUpTo(S, n) == UNION {[1..k -> S] : k \in 0..n}

Range(s) == {s[i] : i \in DOMAIN s}

\* IMDBEpisode (season, episode) pairs; tv_episodes is None for a movie.
EpisodePairs == Seasons \X (-1..MaxEpisode)
DesiredSets == {D \in SUBSET EpisodePairs : Cardinality(D) <= MaxDesired}
TvEpisodes == {None} \cup {Some(D) : D \in DesiredSets}

YTSRows == [quality : {"480p", "720p", "1080p", "1080p.x265", "2160p", "3D"}]

\* EZTV rows: seeds only decide whether a row is dropped (0) or kept.
\* season and episode are the strings of the listing; one row has a season
\* that is no number.
EZTVRows ==
  [season : {to_string(s) : s \in Seasons},
   episode : {to_string(e) : e \in 0..MaxEpisode}, seeds : {0, MaxSeeds},
   quality : {"720p", "1080p", "2160p", "unknown"},
   multi : BOOLEAN, complete : {FALSE}]
  \cup
  [season : {to_string(s) : s \in Seasons},
   episode : {to_string(0)}, seeds : {0, MaxSeeds},
   quality : {"720p", "1080p", "2160p", "unknown"},
   multi : BOOLEAN, complete : {TRUE}]
  \cup
  {[season |-> "", episode |-> to_string(MaxEpisode), seeds |-> MaxSeeds,
    quality |-> "720p", multi |-> FALSE, complete |-> FALSE]}

TheRARBGRows(tv_eps) ==
  IF is_some(tv_eps)
  THEN [season : {Some(s) : s \in Seasons},
        episode : {Some(e) : e \in -1..MaxEpisode},
        quality : TheRARBGQualityWords, seeds : 1..MaxSeeds]
  ELSE [season : {None}, episode : {None},
        quality : TheRARBGQualityWords, seeds : 1..MaxSeeds]

Failure == [fail |-> TRUE, rows |-> <<>>]

\* The rows a listing of the provider's site is made of.
Rows(provider, tv_eps) ==
  CASE provider = "YTS" -> YTSRows
    [] provider = "EZTV" -> EZTVRows
    [] provider = "TheRARBG" -> TheRARBGRows(tv_eps)

\* What the provider's site may answer to a search.  YTS answers a show
\* search, and EZTV a movie search, with an error before any request.
Responses(provider, tv_eps) ==
  IF \/ provider = "YTS" /\ is_some(tv_eps)
     \/ provider = "EZTV" /\ ~is_some(tv_eps)
  THEN {Failure}
  ELSE {Failure} \cup {[fail |-> FALSE, rows |-> r] :
                         r \in SeqsUpTo(Rows(provider, tv_eps), MaxRows)}

\* Every value site.search can return, per provider and per tv_episodes:
\* the search applied to every response of the site.
SearchResults ==
  {t : t \in UNION {{<<pe[1], pe[2], search(pe[1], raw, pe[2])>> :
                        raw \in Responses(pe[1], pe[2])} :
                      pe \in Providers \X TvEpisodes}}

Returns(provider, episodes) ==
  {t[3] : t \in {u \in SearchResults : u[1] = provider /\ u[2] = episodes}}

\* ------------------------------------------------ Torrenter::find_torrent
VARIABLES
  concurrent_search,  \* the search mode
  min_quality,        \* the configured floor
  tv_episodes,        \* None, or Some(the wanted (season, episode) pairs)
  pc,                 \* where the call stands
  site,               \* sequential mode: index into ordering of the next site
  calls,              \* the providers whose search was called, in call order
  finished,           \* the providers whose search returned, in that order
  results,            \* per provider: None, or Some(what its search returned)
  ret,                \* "none", then "Ok" or "Err", or "panic" when it unwinds
  output,             \* the Vec<TorrentItem> of an Ok return
  response,           \* a provider search alone: the site's raw response
  torrents            \* sort and dedup alone: the Vec being worked on

\* The download store and the call of DownloadDatabase::is_downloading.
VARIABLES
  active_downloads,   \* the rows of table active_downloads, in insertion order
  imdb_id,            \* is_downloading: the catalog id asked about
  missing_tv_episodes, \* is_downloading: None, or Some(the Vec<IMDBEpisode>)
  reply               \* None, or Some(what is_downloading returned)

\* The variables of find_torrent and of the providers, pc aside.
engine_vars == <<concurrent_search, min_quality, tv_episodes, site, calls,
                 finished, results, ret, output, response, torrents>>

\* The watchlist task: monitor_watchlist.
VARIABLES
  watchlist,          \* the items whose watchlist flag is true
  tmdb_api_key_is_empty, \* the configuration: IMDB (true) or MovieDB (false)
  remaining,          \* the items of the pass that are still to be checked
  passes,             \* the number of passes begun
  checking,           \* None, or Some(the item checked last)
  before,             \* the store as it was when that check began
  found_torrents,     \* None, or Some(what find_torrent returned to it)
  trace,              \* the calls that check made, in order
  outcome,            \* "none", or how that check ended: "Ok", "Err", "panic"
  client              \* the hashes of the jobs added to the torrent client

reconcile_vars == <<imdb_id, missing_tv_episodes, reply>>

watchlist_vars == <<watchlist, tmdb_api_key_is_empty, remaining, passes,
                    checking, before, found_torrents, trace, outcome, client>>

\* The variables of the store and of the background tasks.
VARIABLES
  backend,            \* the torrent client in use: "qbittorrent" or "transmission"
  natives,            \* hash -> the status the backend holds for it, or "gone"
  torrent_files,      \* hash -> the files the backend lists for it, if any
  torrent_rx,         \* the hashes sent to the monitor and not yet received
  torrents_filtered,  \* main's torrents_filtered
  stalled_torrents,   \* main's stalled_torrents: hash -> None or Some(<<state, time>>)
  auto_torrents,      \* main's auto_torrents
  now,                \* Local::now(), in minutes
  listed,             \* what get_torrents returned on the last turn, if it returned
  made,               \* the calls of the last turn
  reannounced,        \* torrents_to_reannounce of the last turn
  stalled_from        \* hash -> since when every turn has listed it as Stalled

monitor_vars == <<backend, natives, torrent_files, torrent_rx, torrents_filtered,
                  stalled_torrents, auto_torrents, now, listed, made, reannounced,
                  stalled_from>>

VARIABLES
  reachable,          \* the backends that answer at this moment
  rounds,             \* the rounds of the while loop that failed, up to MaxRounds
  a_client,           \* the position of the for loop in available_clients
  initialised,        \* the wrappers of this round whose initialise returned Ok
  torrenter_client,   \* `client` of Torrenter::new: None or Some(implementation)
  attempts,           \* the initialise calls of the round under way
  username_is_empty,
  password_is_empty,
  address_is_url,     \* url::Url::parse(connection_uri) succeeds
  add_client,         \* the wrapper add_torrents is called on
  magnet_uris,        \* the argument of add_torrents
  refused,            \* the magnets the backend refuses
  attempted,          \* the magnets add_torrents handed to the backend
  add_result          \* "none", or the Result of add_torrents: "Ok" / "Err"

connect_vars == <<reachable, rounds, a_client, initialised, torrenter_client,
                  attempts, username_is_empty, password_is_empty, address_is_url>>

add_vars == <<add_client, magnet_uris, refused, attempted, add_result>>

VARIABLES
  to_start            \* the hashes whose record is inserted and whose start_download is to come

start_vars == <<to_start>>

VARIABLES
  holder,             \* the task that holds the Mutex of the TransClient, if any
  waiters,            \* the tasks waiting in lock().await, first come first
  ops,                \* task -> what is left of the wrapper method it is in
  in_flight           \* the tasks with a request on the connection

mutex_vars == <<holder, waiters, ops, in_flight>>

client_vars == <<connect_vars, add_vars, start_vars, mutex_vars>>

daemon_vars == <<active_downloads, reconcile_vars, watchlist_vars, monitor_vars,
                 client_vars>>

vars == <<pc, engine_vars, daemon_vars>>

\* No call of is_downloading.
ReconcileIdle ==
  /\ imdb_id = "tt1"
  /\ missing_tv_episodes = None
  /\ reply = None

\* The watchlist task not started.
WatchlistIdle ==
  /\ watchlist = {}
  /\ tmdb_api_key_is_empty = TRUE
  /\ remaining = <<>>
  /\ passes = 0
  /\ checking = None
  /\ before = <<>>
  /\ found_torrents = None
  /\ trace = <<>>
  /\ outcome = "none"
  /\ client = {}

\* The store and the background tasks while a search alone is looked at.
MonitorIdle ==
  /\ backend = "qbittorrent"
  /\ natives = <<>>
  /\ torrent_files = <<>>
  /\ torrent_rx = {}
  /\ torrents_filtered = {}
  /\ stalled_torrents = <<>>
  /\ auto_torrents = {}
  /\ now = 0
  /\ listed = None
  /\ made = <<>>
  /\ reannounced = {}
  /\ stalled_from = <<>>

ConnectIdle ==
  /\ reachable = {}
  /\ rounds = 0
  /\ a_client = 1
  /\ initialised = {}
  /\ torrenter_client = None
  /\ attempts = <<>>
  /\ username_is_empty = TRUE
  /\ password_is_empty = TRUE
  /\ address_is_url = TRUE

AddIdle ==
  /\ add_client = "qbittorrent"
  /\ magnet_uris = <<>>
  /\ refused = {}
  /\ attempted = <<>>
  /\ add_result = "none"

StartIdle == to_start = {}

MutexIdle ==
  /\ holder = None
  /\ waiters = <<>>
  /\ ops = <<>>
  /\ in_flight = {}

ClientIdle == ConnectIdle /\ AddIdle /\ StartIdle /\ MutexIdle

DaemonIdle ==
  /\ active_downloads = <<>>
  /\ ReconcileIdle
  /\ WatchlistIdle
  /\ MonitorIdle
  /\ ClientIdle

\* The providers in their order: YTS (movies), EZTV (shows), TheRARBG (any),
\* with the last two exchanged.
orderingExchanged == <<"YTS", "TheRARBG", "EZTV">>

\* The providers in their order: YTS (movies), EZTV (shows), TheRARBG (any).
ordering == <<"YTS", "EZTV", "TheRARBG">>

\* A floor filter that keeps only what is strictly above the floor.
FilterAboveFloor(r, floor) ==
  LET Keep(item) == AsU8(item.quality) > AsU8(floor)
  IN  SelectSeq(r, Keep)

\* .filter(|item| (item.quality as u8) >= (self.min_quality as u8)); the
\* parallel iterator collects in the order of the input.
FilterFloor(r, floor) ==
  LET Keep(item) == AsU8(item.quality) >= AsU8(floor)
  IN  SelectSeq(r, Keep)

\* What one provider contributes: None for an error, an empty list or a
\* list the floor empties; Some(the filtered list) otherwise.
SiteOutput(task, floor) ==
  IF task.ok
  THEN IF task.items = <<>> THEN None
       ELSE LET filtered == FilterFloor(task.items, floor)
            IN  IF filtered # <<>> THEN Some(filtered) ELSE None
  ELSE None

\* A join that hands the results back in the order the tasks finished.
JoinInFinishOrder(tasks, returned, finish_order) ==
  [i \in 1..Len(tasks) |-> unwrap(returned[finish_order[i]])]

\* futures::future::join_all: the results in the order of the tasks, in
\* whatever order they finished.
join_all(tasks, returned, finish_order) ==
  [i \in 1..Len(tasks) |-> unwrap(returned[tasks[i]])]

\* .filter_map(..).flatten().collect(): the contributions one after the
\* other, in the order of the tasks.
RECURSIVE Flatten(_, _)
Flatten(joined, floor) ==
  IF joined = <<>> THEN <<>>
  ELSE LET n == Len(joined)
           last == SiteOutput(joined[n], floor)
       IN  Flatten(SubSeq(joined, 1, n - 1), floor)
             \o (IF is_some(last) THEN unwrap(last) ELSE <<>>)

\* The end of the concurrent branch: Ok(output) unless output is empty, and
\* then the Err at the end of find_torrent.
ConcurrentReturn(merged) ==
  IF merged # <<>> THEN [ret |-> "Ok", items |-> merged]
  ELSE [ret |-> "Err", items |-> <<>>]

NoResults == [p \in Providers |-> None]

Init ==
  /\ concurrent_search \in BOOLEAN
  /\ min_quality \in Qualities
  /\ tv_episodes \in TvEpisodes
  /\ pc = "start"
  /\ site = 1
  /\ calls = <<>>
  /\ finished = <<>>
  /\ results = NoResults
  /\ ret = "none"
  /\ output = <<>>
  /\ response = None
  /\ torrents = <<>>
  /\ DaemonIdle

\* find_torrent up to its first await: the concurrent branch builds one task
\* per site and join_all polls them in order; the sequential branch enters
\* the loop.
Begin ==
  /\ pc = "start"
  /\ IF concurrent_search
     THEN pc' = "join" /\ calls' = ordering
     ELSE pc' = "seq" /\ calls' = calls
  /\ UNCHANGED <<concurrent_search, min_quality, tv_episodes, site, finished,
                 results, ret, output, response, torrents>>
  /\ UNCHANGED daemon_vars

\* One turn of the sequential loop: the search of the next site, then the
\* return of its filtered list or the continue.
SeqSearch(provider) ==
  /\ pc = "seq"
  /\ site <= Len(ordering)
  /\ ordering[site] = provider
  /\ \E r \in Returns(provider, tv_episodes) :
       LET contribution == SiteOutput(r, min_quality)
       IN  /\ calls' = Append(calls, provider)
           /\ finished' = Append(finished, provider)
           /\ results' = [results EXCEPT ![provider] = Some(r)]
           /\ IF r.panic
              THEN /\ ret' = "panic"
                   /\ pc' = "done"
                   /\ UNCHANGED <<output, site>>
              ELSE IF is_some(contribution)
              THEN /\ ret' = "Ok"
                   /\ output' = unwrap(contribution)
                   /\ pc' = "done"
                   /\ site' = site
              ELSE /\ site' = site + 1
                   /\ UNCHANGED <<ret, output, pc>>
  /\ UNCHANGED <<concurrent_search, min_quality, tv_episodes, response, torrents>>
  /\ UNCHANGED daemon_vars

SeqSearchYTS == SeqSearch("YTS")
SeqSearchEZTV == SeqSearch("EZTV")
SeqSearchTheRARBG == SeqSearch("TheRARBG")

\* The loop is over: Err("No torrents found matching criteria").
SeqExhausted ==
  /\ pc = "seq"
  /\ site > Len(ordering)
  /\ ret' = "Err"
  /\ pc' = "done"
  /\ UNCHANGED <<concurrent_search, min_quality, tv_episodes, site, calls,
                 finished, results, output, response, torrents>>
  /\ UNCHANGED daemon_vars

\* Concurrent mode: the search of one site ends, in any order.  join_all
\* polls the searches inside find_torrent, so a search that panics unwinds
\* find_torrent there and then.
Complete(provider) ==
  /\ pc = "join"
  /\ results[provider] = None
  /\ \E r \in Returns(provider, tv_episodes) :
       /\ results' = [results EXCEPT ![provider] = Some(r)]
       /\ IF r.panic
          THEN ret' = "panic" /\ pc' = "done"
          ELSE UNCHANGED <<ret, pc>>
  /\ finished' = Append(finished, provider)
  /\ UNCHANGED <<concurrent_search, min_quality, tv_episodes, site, calls,
                 output, response, torrents>>
  /\ UNCHANGED daemon_vars

CompleteYTS == Complete("YTS")
CompleteEZTV == Complete("EZTV")
CompleteTheRARBG == Complete("TheRARBG")

\* Concurrent mode: every search has returned; join_all resolves and the
\* results are filtered, merged and returned.
JoinAll ==
  /\ pc = "join"
  /\ \A p \in Providers : results[p] # None
  /\ LET merged == Flatten(join_all(calls, results, finished), min_quality)
         returned == ConcurrentReturn(merged)
     IN  ret' = returned.ret /\ output' = returned.items
  /\ pc' = "done"
  /\ UNCHANGED <<concurrent_search, min_quality, tv_episodes, site, calls,
                 finished, results, response, torrents>>
  /\ UNCHANGED daemon_vars

Next ==
  \/ Begin
  \/ SeqSearchYTS
  \/ SeqSearchEZTV
  \/ SeqSearchTheRARBG
  \/ SeqExhausted
  \/ CompleteYTS
  \/ CompleteEZTV
  \/ CompleteTheRARBG
  \/ JoinAll

Spec == Init /\ [][Next]_vars

\* ------------------------------------------------- one provider search
\* A search of one site on its own: the site answers, and the provider's
\* search turns the answer into its Result.
InitSearch ==
  /\ concurrent_search = FALSE
  /\ min_quality = "Unknown"
  /\ tv_episodes \in TvEpisodes
  /\ pc = "start"
  /\ site = 1
  /\ calls = <<>>
  /\ finished = <<>>
  /\ results = NoResults
  /\ ret = "none"
  /\ output = <<>>
  /\ response = None
  /\ torrents = <<>>
  /\ DaemonIdle

Search(provider) ==
  /\ pc = "start"
  /\ \E raw \in Responses(provider, tv_episodes) :
       /\ response' = Some(raw)
       /\ results' = [results EXCEPT ![provider] = Some(search(provider, raw, tv_episodes))]
  /\ calls' = <<provider>>
  /\ finished' = <<provider>>
  /\ pc' = "searched"
  /\ UNCHANGED <<concurrent_search, min_quality, tv_episodes, site, ret, output,
                 torrents>>
  /\ UNCHANGED daemon_vars

SearchYTS == Search("YTS")
SearchEZTV == Search("EZTV")
SearchTheRARBG == Search("TheRARBG")

NextSearch ==
  \/ SearchYTS
  \/ SearchEZTV
  \/ SearchTheRARBG

SpecSearch == InitSearch /\ [][NextSearch]_vars

\* ------------------------------------------------- sort_by, then dedup_by
\* The tail of a provider's search on its own: the Vec is sorted, then
\* deduplicated; a second dedup_by is applied to the outcome.

\* Which sort and dedup the site applies.
Kind ==
  IF ordering[site] = "EZTV" THEN "EZTV"
  ELSE IF is_some(tv_episodes) THEN "TheRARBGShow" ELSE "TheRARBGMovie"

\* The items a Vec of the kind is made of: two seasons, a pack and an
\* episode, two tiers (all four for a movie), two seed counts.
Items(kind) ==
  CASE kind = "TheRARBGShow" ->
         {TorrentItem(q, Some(s), Some(e), Some(n), "TheRARBG") :
            q \in {"_720p", "_1080p"}, s \in {1, MaxSeason}, e \in {-1, MaxEpisode},
            n \in {1, MaxSeeds}}
    [] kind = "TheRARBGMovie" ->
         {TorrentItem(TheRARBGQuality(w), None, None, Some(n), "TheRARBG") :
            w \in TheRARBGQualityWords, n \in {1, MaxSeeds}}
    [] kind = "EZTV" ->
         {TorrentItem(q, Some(s), Some(e), None, "EZTV") :
            q \in {"_720p", "_1080p"}, s \in {1, MaxSeason}, e \in {-1, MaxEpisode}}

InitDedup ==
  /\ concurrent_search = FALSE
  /\ min_quality = "Unknown"
  /\ site \in {2, 3}
  /\ tv_episodes \in (IF site = 2 THEN {Some({})} ELSE {None, Some({})})
  /\ pc = "sorted"
  /\ calls = <<>>
  /\ finished = <<>>
  /\ results = NoResults
  /\ ret = "none"
  /\ output = <<>>
  /\ response = None
  /\ torrents \in {sort_by(Kind, s) : s \in SeqsUpTo(Items(Kind), MaxLen)}
  /\ DaemonIdle

\* torrents.dedup_by(..): output remembers the Vec as it was before.
Dedup(kind) ==
  /\ pc \in {"sorted", "deduped"}
  /\ Kind = kind
  /\ output' = torrents
  /\ torrents' = dedup_by(kind, torrents)
  /\ pc' = IF pc = "sorted" THEN "deduped" ELSE "again"
  /\ UNCHANGED <<concurrent_search, min_quality, tv_episodes, site, calls,
                 finished, results, ret, response>>
  /\ UNCHANGED daemon_vars

DedupTheRARBGShow == Dedup("TheRARBGShow")
DedupTheRARBGMovie == Dedup("TheRARBGMovie")
DedupEZTV == Dedup("EZTV")

NextDedup ==
  \/ DedupTheRARBGShow
  \/ DedupTheRARBGMovie
  \/ DedupEZTV

SpecDedup == InitDedup /\ [][NextDedup]_vars

\* ------------------------------------------- DownloadDatabase::is_downloading
\* A row of table active_downloads: season and episode are NULL (None) for
\* a movie.
DownloadRow(id, season, episode, magnet_hash, quality) ==
  [imdb_id |-> id, season |-> season, episode |-> episode,
   magnet_hash |-> magnet_hash, quality |-> quality, state |-> None]

IMDBEpisode(season, episode) == [season |-> season, episode |-> episode]

\* The closure of sorted.sort_by: season descending, then episode descending.
CmpIMDBEpisode(a, b) ==
  LET season_cmp == cmp(b.season, a.season)
  IN  IF season_cmp = "Equal" THEN cmp(b.episode, a.episode) ELSE season_cmp

\* sorted.sort_by(..), a stable sort.
sort_episodes(s) ==
  LET n == Len(s)
      Before(i) ==
        {j \in 1..n : \/ CmpIMDBEpisode(s[j], s[i]) = "Less"
                      \/ CmpIMDBEpisode(s[j], s[i]) = "Equal" /\ j < i}
      at == [i \in 1..n |-> Cardinality(Before(i)) + 1]
  IN  [k \in 1..n |-> s[CHOOSE i \in 1..n : at[i] = k]]

\* sorted.chunk_by(|a, b| a.season == b.season): the maximal runs of
\* consecutive elements of one season.
RECURSIVE chunk_by(_)
chunk_by(s) ==
  IF s = <<>> THEN <<>>
  ELSE IF Len(s) = 1 THEN <<s>>
  ELSE LET n == Len(s)
           c == chunk_by(SubSeq(s, 1, n - 1))
           m == Len(c)
       IN  IF s[n - 1].season = s[n].season
           THEN [c EXCEPT ![m] = Append(c[m], s[n])]
           ELSE Append(c, <<s[n]>>)

\* The same query without its imdb_id condition.
SelectSeasonEpisodesAnyId(table, id, season) ==
  LET season_number == season[1].season
      numbers == {season[i].episode : i \in 1..Len(season)}
      Hit(row) == /\ row.season = Some(season_number)
                  /\ is_some(row.episode)
                  /\ unwrap(row.episode) \in numbers
      rows == SelectSeq(table, Hit)
  IN  [i \in 1..Len(rows) |-> <<unwrap(rows[i].season), unwrap(rows[i].episode)>>]

\* SELECT season, episode FROM active_downloads WHERE imdb_id = $1 AND
\* season = $2 AND episode in ($3, ..): the (i32, i32) of the matching rows.
\* A NULL season or episode matches nothing.
SelectSeasonEpisodes(table, id, season) ==
  LET season_number == season[1].season
      numbers == {season[i].episode : i \in 1..Len(season)}
      Hit(row) == /\ row.imdb_id = id
                  /\ row.season = Some(season_number)
                  /\ is_some(row.episode)
                  /\ unwrap(row.episode) \in numbers
      rows == SelectSeq(table, Hit)
  IN  [i \in 1..Len(rows) |-> <<unwrap(rows[i].season), unwrap(rows[i].episode)>>]

\* The for loop over the seasons: downloading_episodes.append(&mut resp).
RECURSIVE DownloadingEpisodes(_, _, _)
DownloadingEpisodes(table, id, seasons) ==
  IF seasons = <<>> THEN <<>>
  ELSE SelectSeasonEpisodes(table, id, Head(seasons))
         \o DownloadingEpisodes(table, id, Tail(seasons))

\* A lookup that takes any row of the table, whatever its imdb_id.
SelectAnyId(table, id) ==
  IF table = <<>> THEN None ELSE Some(table[1])

\* SELECT id FROM active_downloads WHERE imdb_id = $1, fetch_optional: the
\* first matching row, if there is one.
SelectId(table, id) ==
  LET Hit(row) == row.imdb_id = id
      rows == SelectSeq(table, Hit)
  IN  IF rows = <<>> THEN None ELSE Some(rows[1])

\* What is_downloading returns: Ok((bool, Option<Vec<IMDBEpisode>>)).
OkDownloading(downloading, missing) ==
  [ok |-> TRUE, downloading |-> downloading, missing |-> missing]

\* A query that fails: the ? hands the error to the caller.
ErrDownloading == [ok |-> FALSE, downloading |-> FALSE, missing |-> None]

is_downloading(table, id, eps) ==
  IF eps = None
  THEN LET resp == SelectId(table, id)
       IN  IF is_some(resp) THEN OkDownloading(TRUE, None)
           ELSE OkDownloading(FALSE, None)
  ELSE LET sorted == sort_episodes(unwrap(eps))
           seasons == chunk_by(sorted)
           downloading_episodes == DownloadingEpisodes(table, id, seasons)
           sorted_len == Len(sorted)
           Keep(e) ==
             ~ \E i \in 1..Len(downloading_episodes) :
                  downloading_episodes[i] = <<e.season, e.episode>>
           filtered == SelectSeq(sorted, Keep)
       IN  IF filtered = <<>> THEN OkDownloading(TRUE, None)
           ELSE IF sorted_len = Len(filtered)
                THEN OkDownloading(FALSE, Some(filtered))
                ELSE OkDownloading(TRUE, Some(filtered))

\* The catalog ids of the store.
ImdbIds == {"tt1", "tt2"}

\* The episodes a show is made of: the first and the last of the first and
\* the last season.
IMDBEpisodes ==
  {IMDBEpisode(s, e) : s \in {1, MaxSeason}, e \in {1, MaxIMDBEpisode}}

\* The Vecs find_missing_tv_shows hands over: the episodes of IMDB that the
\* library lacks, each once, in the order swap_remove left them in. It
\* returns None rather than Some of an empty Vec.
MissingEpisodes ==
  {v \in SeqsUpTo(IMDBEpisodes, MaxWanted) :
     /\ v # <<>>
     /\ \A i, j \in 1..Len(v) : i # j => v[i] # v[j]}

\* The rows insert can have written: a movie's, or an episode's.
StoredRows ==
  {DownloadRow(id, None, None, "hash", "_1080p") : id \in ImdbIds}
    \cup {DownloadRow(id, Some(x.season), Some(x.episode), "hash", "_1080p") :
            id \in ImdbIds, x \in IMDBEpisodes}

\* find_torrent and the providers not called.
EngineIdle ==
  /\ concurrent_search = FALSE
  /\ min_quality = "Unknown"
  /\ tv_episodes = None
  /\ site = 1
  /\ calls = <<>>
  /\ finished = <<>>
  /\ results = NoResults
  /\ ret = "none"
  /\ output = <<>>
  /\ response = None
  /\ torrents = <<>>

InitReconcile ==
  /\ pc = "start"
  /\ EngineIdle
  /\ ClientIdle
  /\ WatchlistIdle
  /\ MonitorIdle
  /\ active_downloads \in SeqsUpTo(StoredRows, MaxRecords)
  /\ imdb_id \in ImdbIds
  /\ missing_tv_episodes \in {None} \cup {Some(v) : v \in MissingEpisodes}
  /\ reply = None

\* download_db.is_downloading(&imdb_id, missing_tv_episodes).await, the
\* store answering.
IsDownloading ==
  /\ pc = "start"
  /\ reply' = Some(is_downloading(active_downloads, imdb_id, missing_tv_episodes))
  /\ pc' = "replied"
  /\ UNCHANGED <<active_downloads, imdb_id, missing_tv_episodes>>
  /\ UNCHANGED <<engine_vars, watchlist_vars, monitor_vars, client_vars>>

\* The same call, a query failing.
IsDownloadingFails ==
  /\ pc = "start"
  /\ reply' = Some(ErrDownloading)
  /\ pc' = "replied"
  /\ UNCHANGED <<active_downloads, imdb_id, missing_tv_episodes>>
  /\ UNCHANGED <<engine_vars, watchlist_vars, monitor_vars, client_vars>>

NextReconcile ==
  \/ IsDownloading
  \/ IsDownloadingFails

SpecReconcile == InitReconcile /\ [][NextReconcile]_vars

\* ------------------------------------------------------ monitor_watchlist
\* A magnet URI: the info hash after "magnet:?xt=urn:btih:", and whether an
\* '&' with parameters follows it.
MagnetUri(hash, params) == [hash |-> hash, params |-> params]

\* magnet_uri.split_at(20).1.split_once('&'): Some(the hash) when an '&'
\* follows the hash, None otherwise; the caller unwraps.
split_once(magnet_uri) ==
  IF magnet_uri.params THEN Some(magnet_uri.hash) ELSE None

\* A TorrentItem as the watchlist task reads it.
FoundItem(id, quality, season, episode, magnet_uri) ==
  [imdb_id |-> id, quality |-> quality, season |-> season,
   episode |-> episode, magnet_uri |-> magnet_uri]

\* IMDBItem / MovieDBItem: the id and the _type.
WatchlistItem(id, type) == [id |-> id, _type |-> type]

WatchlistItems == {WatchlistItem("tt1", "Movie"), WatchlistItem("tt2", "TvShow")}

\* The magnets a site may list: one with parameters, one bare.
Magnets == {MagnetUri("h1", TRUE), MagnetUri("h2", FALSE)}

\* The episodes the library lacks, as find_missing_tv_shows reports them for
\* the show of the watchlist: the episode IMDB numbers 0 of season 1.
MissingOfShow == <<IMDBEpisode(1, 0)>>

\* tv_episodes as the providers read it.
EpisodePairsOf(eps) ==
  IF is_some(eps)
  THEN Some({<<x.season, x.episode>> : x \in Range(unwrap(eps))})
  ELSE None

\* The (quality, season, episode) of the items the providers' searches can
\* return for these episodes.
ProviderItems(eps) ==
  UNION {{<<r.items[i].quality, r.items[i].season, r.items[i].episode>> :
            i \in 1..Len(r.items)} :
          r \in UNION {Returns(p, EpisodePairsOf(eps)) : p \in Providers}}

\* What find_torrent may give back for the item: torrents the providers
\* can return for it, of a tier below and of the tier the task asks for.
\* The bare magnet is tried with the tier that passes the task's filter.
FoundItems(item, eps) ==
  LET all == {FoundItem(item.id, t[1], t[2], t[3], m) :
                t \in ProviderItems(eps), m \in Magnets}
  IN  {x \in all : \/ x.quality = "_1080p"
                    \/ (x.quality = "_720p" /\ x.magnet_uri.params)}

\* EZTV's search of a show can unwind.
EZTVUnwinds == \E D \in DesiredSets : Panic \in Returns("EZTV", Some(D))

\* find_torrent unwinds where a provider's search does: EZTV's, which is
\* only run for a show.
FindTorrentUnwinds(eps) == is_some(eps) /\ EZTVUnwinds

\* The outcomes of torrenter.find_torrent(title, Some(id), episodes).await:
\* Ok of a Vec that is never empty, Err, or the panic.
FindTorrent(item, eps) ==
  {Err} \cup {Ok(v) : v \in SeqsUpTo(FoundItems(item, eps), MaxFound) \ {<<>>}}
    \cup (IF FindTorrentUnwinds(eps) THEN {Panic} ELSE {})

\* The outcomes of the search for the movie and for the show of the
\* watchlist.
MovieSearches == FindTorrent(WatchlistItem("tt1", "Movie"), None)
ShowSearches == FindTorrent(WatchlistItem("tt2", "TvShow"), Some(MissingOfShow))

\* An event of the task: a call it makes, and whether the call succeeded.
Event(op, torrent, ok) == [op |-> op, torrent |-> torrent, ok |-> ok]

\* .filter(|x| x.quality == MediaQuality::_1080p)
Filter1080p(found) ==
  LET Keep(x) == x.quality = "_1080p"
  IN  SelectSeq(found, Keep)

\* The row insert writes for a TorrentQuery.
InsertedRow(t) ==
  DownloadRow(t.imdb_id, t.season, t.episode,
              unwrap(split_once(t.magnet_uri)), t.quality)

\* How the body of `for torrent in torrents` ends for the k-th torrent:
\* insert and start_download unwrap the hash; the insert fails at
\* insert_err, add_torrent at add_err.
TorrentStatus(vec, k, with_insert, insert_err, add_err) ==
  IF ~is_some(split_once(vec[k].magnet_uri)) THEN "panic"
  ELSE IF with_insert /\ insert_err = k THEN "insert_err"
  ELSE IF add_err = k THEN "add_err"
  ELSE "ok"

\* The calls the body makes for the k-th torrent.
TorrentEvents(vec, k, with_insert, insert_err, add_err) ==
  LET status == TorrentStatus(vec, k, with_insert, insert_err, add_err)
      t == Some(vec[k])
      insert == IF with_insert
                THEN <<Event("insert", t, status # "insert_err")>>
                ELSE <<>>
      start == <<Event("send", t, TRUE),
                 Event("add_torrent", t, status # "add_err")>>
  IN  CASE status = "panic" -> <<>>
        [] status = "insert_err" -> insert
        [] OTHER -> insert \o start

RECURSIVE EventsUpTo(_, _, _, _, _)
EventsUpTo(vec, k, with_insert, insert_err, add_err) ==
  IF k = 0 THEN <<>>
  ELSE EventsUpTo(vec, k - 1, with_insert, insert_err, add_err)
         \o TorrentEvents(vec, k, with_insert, insert_err, add_err)

\* The for loop over the filtered torrents: it ends at the first torrent
\* whose body does not end well.
ForTorrents(vec, table, with_insert, insert_err, add_err) ==
  LET n == Len(vec)
      Bad(k) == TorrentStatus(vec, k, with_insert, insert_err, add_err) # "ok"
      stop == IF \E k \in 1..n : Bad(k)
              THEN CHOOSE k \in 1..n : Bad(k) /\ \A j \in 1..(k - 1) : ~Bad(j)
              ELSE n + 1
      last == IF stop <= n
              THEN TorrentStatus(vec, stop, with_insert, insert_err, add_err)
              ELSE "ok"
      events == EventsUpTo(vec, IF stop <= n THEN stop ELSE n,
                           with_insert, insert_err, add_err)
      Inserted(e) == e.op = "insert" /\ e.ok
      inserts == SelectSeq(events, Inserted)
      Added(e) == e.op = "add_torrent" /\ e.ok
      adds == SelectSeq(events, Added)
  IN  [result |-> CASE last = "ok" -> "Ok"
                    [] last = "panic" -> "panic"
                    [] OTHER -> "Err",
       table |-> table \o [i \in 1..Len(inserts) |-> InsertedRow(unwrap(inserts[i].torrent))],
       added |-> {unwrap(split_once(unwrap(adds[i].torrent).magnet_uri)) : i \in 1..Len(adds)},
       events |-> events]

\* find_downloads_and_start_imdb (with_insert) and
\* find_downloads_and_start_moviedb (without): the search, the 1080p
\* filter, and the loop.
find_downloads_and_start(found, table, with_insert, insert_err, add_err) ==
  LET searched == <<Event("find_torrent", None, found.ok)>>
      vec == Filter1080p(found.items)
  IN  IF found.panic
      THEN [result |-> "panic", table |-> table, added |-> {}, events |-> searched]
      ELSE IF ~found.ok \/ vec = <<>>
      THEN [result |-> "Err", table |-> table, added |-> {}, events |-> searched]
      ELSE LET r == ForTorrents(vec, table, with_insert, insert_err, add_err)
           IN  [r EXCEPT !.events = searched \o r.events]

\* Which call of the loop fails, if one does: <<insert_err, add_err>>, the
\* index of the torrent whose insert, or whose add_torrent, returns Err.
Failures ==
  {<<0, 0>>} \cup {<<k, 0>> : k \in 1..MaxFound} \cup {<<0, k>> : k \in 1..MaxFound}

\* The orders fetch_watchlist may return the rows of the watchlist in.
Orders(S) ==
  {v \in SeqsUpTo(S, Cardinality(S)) : Len(v) = Cardinality(S) /\ Range(v) = S}

\* The stores the task may find: empty, or holding the record of a download
\* of the movie or of the show's missing episode.
StoresFound ==
  {<<>>,
   <<DownloadRow("tt1", None, None, "h1", "_1080p")>>,
   <<DownloadRow("tt2", Some(1), Some(0), "h1", "_1080p")>>}

InitWatchlist ==
  /\ pc = "loop"
  /\ EngineIdle
  /\ ClientIdle
  /\ ReconcileIdle
  /\ MonitorIdle
  /\ active_downloads \in StoresFound
  /\ watchlist \in SUBSET WatchlistItems
  /\ tmdb_api_key_is_empty \in BOOLEAN
  /\ remaining = <<>>
  /\ passes = 0
  /\ checking = None
  /\ before = <<>>
  /\ found_torrents = None
  /\ trace = <<>>
  /\ outcome = "none"
  /\ client = {}

\* The head of the loop: fetch_watchlist().await.unwrap(); an empty
\* watchlist sends the task to sleep at once.
FetchWatchlist ==
  /\ pc = "loop"
  /\ passes < MaxPasses
  /\ passes' = passes + 1
  /\ \E order \in Orders(watchlist) :
       /\ remaining' = order
       /\ pc' = IF order = <<>> THEN "loop" ELSE "for"
  /\ UNCHANGED <<active_downloads, watchlist, tmdb_api_key_is_empty, checking,
                 before, found_torrents, trace, outcome, client>>
  /\ UNCHANGED <<engine_vars, reconcile_vars, monitor_vars, client_vars>>

\* fetch_watchlist fails: the unwrap panics and the task ends.
FetchWatchlistFails ==
  /\ pc = "loop"
  /\ passes < MaxPasses
  /\ passes' = passes + 1
  /\ pc' = "halted"
  /\ UNCHANGED <<active_downloads, watchlist, tmdb_api_key_is_empty, remaining,
                 checking, before, found_torrents, trace, outcome, client>>
  /\ UNCHANGED <<engine_vars, reconcile_vars, monitor_vars, client_vars>>

\* An update that leaves the flag as it is.
KeepOnWatchlist(list, item, state) == list

\* update_watchlist_item(&item.id, state): UPDATE .. SET watchlist = state
\* WHERE id = item.id.
update_watchlist_item(list, item, state) ==
  IF state THEN list \cup {item} ELSE list \ {item}

\* Where the task stands after the item: a panic ends it; after the last
\* item it sleeps and loops; otherwise the for loop goes on, Ok or Err.
AfterItem(result) ==
  IF result = "panic" THEN "halted"
  ELSE IF Tail(remaining) = <<>> THEN "loop" ELSE "for"

\* One turn of `for item in watchlist` for a movie:
\* check_movie_downloads_imdb or check_movie_downloads_moviedb.
CheckMovieDownloads ==
  /\ pc = "for"
  /\ remaining # <<>>
  /\ Head(remaining)._type = "Movie"
  /\ \E found \in MovieSearches,
        fails \in Failures, updated \in BOOLEAN :
       LET started == find_downloads_and_start(found, active_downloads,
                                               tmdb_api_key_is_empty, fails[1], fails[2])
           update == Event("update_watchlist_item", None, updated)
       IN  \E r \in {started} :
           /\ found_torrents' = Some(found)
           /\ active_downloads' = r.table
           /\ client' = client \cup r.added
           /\ IF r.result = "Ok"
              THEN /\ trace' = Append(r.events, update)
                   /\ outcome' = IF updated THEN "Ok" ELSE "Err"
                   /\ watchlist' = IF updated
                                   THEN update_watchlist_item(watchlist, Head(remaining), FALSE)
                                   ELSE watchlist
              ELSE /\ trace' = r.events
                   /\ outcome' = r.result
                   /\ watchlist' = watchlist
           /\ pc' = AfterItem(r.result)
  /\ checking' = Some(Head(remaining))
  /\ before' = active_downloads
  /\ remaining' = Tail(remaining)
  /\ UNCHANGED <<tmdb_api_key_is_empty, passes>>
  /\ UNCHANGED <<engine_vars, reconcile_vars, monitor_vars, client_vars>>

\* One turn for a show: check_tv_downloads_imdb or check_tv_downloads_moviedb.
\* find_missing_tv_shows fails, finds nothing missing, or hands the missing
\* episodes to the search.
CheckTvDownloads ==
  /\ pc = "for"
  /\ remaining # <<>>
  /\ Head(remaining)._type = "TvShow"
  /\ \E missing \in {"Err", "None", "Some"} :
       IF missing = "Some"
       THEN \E found \in ShowSearches,
               fails \in Failures :
              LET started == find_downloads_and_start(found, active_downloads,
                                                      tmdb_api_key_is_empty, fails[1], fails[2])
              IN  \E r \in {started} :
                  /\ found_torrents' = Some(found)
                  /\ active_downloads' = r.table
                  /\ client' = client \cup r.added
                  /\ trace' = <<Event("find_missing_tv_shows", None, TRUE)>> \o r.events
                  /\ outcome' = r.result
                  /\ pc' = AfterItem(r.result)
       ELSE /\ trace' = <<Event("find_missing_tv_shows", None, missing = "None")>>
            /\ outcome' = "Err"
            /\ pc' = AfterItem("Err")
            /\ found_torrents' = None
            /\ UNCHANGED <<active_downloads, client>>
  /\ checking' = Some(Head(remaining))
  /\ before' = active_downloads
  /\ remaining' = Tail(remaining)
  /\ UNCHANGED <<watchlist, tmdb_api_key_is_empty, passes>>
  /\ UNCHANGED <<engine_vars, reconcile_vars, monitor_vars, client_vars>>

NextWatchlist ==
  \/ FetchWatchlist
  \/ FetchWatchlistFails
  \/ CheckMovieDownloads
  \/ CheckTvDownloads

SpecWatchlist == InitWatchlist /\ [][NextWatchlist]_vars

\* ------------------------------------------------------- monitor_torrents
\* TorrentState: the variant and, for Error and Other, what it carries.
TorrentState(tag, arg) == [tag |-> tag, arg |-> arg]

Starting == TorrentState("Starting", None)
Downloading == TorrentState("Downloading", None)
Stalled == TorrentState("Stalled", None)
Paused == TorrentState("Paused", None)
Completed == TorrentState("Completed", None)
Uploading == TorrentState("Uploading", None)
StalledUpload == TorrentState("StalledUpload", None)
Error(err) == TorrentState("Error", err)
Other(other) == TorrentState("Other", Some(other))

\* impl Display for TorrentState
state_to_string(state) ==
  CASE state.tag = "Error" ->
         IF is_some(state.arg) THEN <<"Error: ", unwrap(state.arg)>> ELSE <<"Error">>
    [] state.tag = "Other" -> <<unwrap(state.arg)>>
    [] OTHER -> <<state.tag>>

\* qbittorrent::data::State, as convert_state matches it.
QbittorrentStates ==
  {"Error", "MissingFiles", "Uploading", "PausedUP", "QueuedUP", "StalledUP",
   "CheckingUP", "ForcedUP", "Allocating", "Downloading", "MetaDL", "PausedDL",
   "QueuedDL", "StalledDL", "CheckingDL", "ForceDL", "CheckingResumeData",
   "Moving", "Unknown"}

\* A conversion that hands the status through as it is.
convert_state_as_is(state) == TorrentState(state, None)

\* QbittorrentWrapper::convert_state
convert_state(state) ==
  CASE state = "Error" -> Error(None)
    [] state = "MissingFiles" -> Error(Some("MissingFiles"))
    [] state = "Uploading" -> Uploading
    [] state = "PausedUP" -> Paused
    [] state = "QueuedUP" -> Paused
    [] state = "StalledUP" -> StalledUpload
    [] state = "CheckingUP" -> Other("CheckingUP")
    [] state = "ForcedUP" -> Uploading
    [] state = "Allocating" -> Other("Allocating")
    [] state = "Downloading" -> Downloading
    [] state = "MetaDL" -> Starting
    [] state = "PausedDL" -> Paused
    [] state = "QueuedDL" -> Paused
    [] state = "StalledDL" -> Stalled
    [] state = "CheckingDL" -> Other("CheckingDL")
    [] state = "ForceDL" -> Downloading
    [] state = "CheckingResumeData" -> Other("CheckingResumeData")
    [] state = "Moving" -> Other("Moving")
    [] state = "Unknown" -> Other("Unknown")

\* transmission_rpc's TorrentStatus.
TransmissionStatuses ==
  {"Stopped", "QueuedToVerify", "Verifying", "QueuedToDownload", "Downloading",
   "QueuedToSeed", "Seeding"}

\* TransmissionWrapper::get_torrents: the match on torrent.status.
transmission_state(status) ==
  CASE status = "Stopped" -> Paused
    [] status = "QueuedToVerify" -> Paused
    [] status = "Verifying" -> Other("Verify")
    [] status = "QueuedToDownload" -> Paused
    [] status = "Downloading" -> Downloading
    [] status = "QueuedToSeed" -> Paused
    [] status = "Seeding" -> Uploading

\* The state the wrapper of the backend reports for a native status.
Normalized(wrapper, native) ==
  IF wrapper = "qbittorrent" THEN convert_state(native)
  ELSE transmission_state(native)

\* The native statuses of a torrent whose download has finished.
FinishedStatuses(wrapper) ==
  IF wrapper = "qbittorrent"
  THEN {"Uploading", "PausedUP", "QueuedUP", "StalledUP", "CheckingUP", "ForcedUP"}
  ELSE {"QueuedToSeed", "Seeding"}

\* The statuses the backend moves a torrent through here: downloading,
\* stalled, paused, and, once finished, seeding or paused.
StatusesSeen(wrapper) ==
  IF wrapper = "qbittorrent"
  THEN {"Downloading", "StalledDL", "PausedDL", "Uploading", "PausedUP"}
  ELSE {"Downloading", "Stopped", "Seeding"}

Hashes == {"h1"}

\* The torrents in the order the backend lists them.
HashOrder == <<"h1", "h2">>

\* chrono::Duration::minutes(30)
ThirtyMinutes == 30

\* A call the tick makes on the client or on the store.
Call(op, arg, ok) == [op |-> op, arg |-> arg, ok |-> ok]

\* A clearing that leaves the table as it is.
KeepAll(table) == table

\* DownloadDatabase::remove_all: DELETE FROM active_downloads.
remove_all(table) == <<>>

\* DownloadDatabase::remove_all_finished: DELETE .. WHERE state IN
\* ('pausedUP', 'forcedUP').
remove_all_finished(table) ==
  LET Keep(row) == row.state \notin {Some(<<"pausedUP">>), Some(<<"forcedUP">>)}
  IN  SelectSeq(table, Keep)

\* A removal that keeps the records of the torrents that are gone.
KeepRemoved(table, active_hashes) == table

\* DownloadDatabase::remove_manually_removed: DELETE .. WHERE magnet_hash
\* NOT IN (the hashes the client listed).
remove_manually_removed(table, active_hashes) ==
  LET Keep(row) == row.magnet_hash \in active_hashes
  IN  SelectSeq(table, Keep)

\* DownloadDatabase::update: UPDATE .. SET state = .. WHERE magnet_hash = ..
update(table, hash, state) ==
  [i \in 1..Len(table) |->
     IF table[i].magnet_hash = hash
     THEN [table[i] EXCEPT !.state = Some(state)]
     ELSE table[i]]

\* The hashes of the records a DELETE took out of the table.
Deleted(table, after, ok) ==
  IF ok THEN {table[i].magnet_hash : i \in 1..Len(table)}
               \ {after[i].magnet_hash : i \in 1..Len(after)}
  ELSE {}

\* The records an earlier run of the daemon left in the store: none, or
\* one of a torrent that is gone and one of a torrent that had finished.
Leftovers ==
  {<<>>,
   <<DownloadRow("tt2", None, None, "h0", "_1080p"),
     [DownloadRow("tt2", None, None, "h9", "_1080p") EXCEPT !.state = Some(<<"pausedUP">>)]>>}

\* for torrent in torrents.iter() { db.update(..) }
RECURSIVE UpdateAll(_, _, _)
UpdateAll(table, listing, hashes) ==
  IF hashes = <<>> THEN table
  ELSE UpdateAll(update(table, Head(hashes), state_to_string(listing[Head(hashes)])),
                 listing, Tail(hashes))

\* An entry that is kept up to date and never asks for a re-announce.
StalledEntryQuiet(entry, state, time_now) ==
  IF is_some(entry) /\ unwrap(entry)[1] = state /\ state # Stalled
  THEN [entry |-> entry, reannounce |-> FALSE]
  ELSE [entry |-> Some(<<state, time_now>>), reannounce |-> FALSE]

\* stalled_torrents.entry(hash).and_modify(..).or_insert(..): the entry
\* after the torrent was looked at, and whether it is to be re-announced.
StalledEntry(entry, state, time_now) ==
  LET thirty_minutes_ago == time_now - ThirtyMinutes
  IN  IF ~is_some(entry)
      THEN [entry |-> Some(<<state, time_now>>), reannounce |-> FALSE]
      ELSE IF unwrap(entry)[1] # state
      THEN [entry |-> Some(<<state, time_now>>), reannounce |-> FALSE]
      ELSE IF unwrap(entry)[1] = Stalled /\ unwrap(entry)[2] <= thirty_minutes_ago
      THEN [entry |-> Some(<<state, time_now>>), reannounce |-> TRUE]
      ELSE [entry |-> entry, reannounce |-> FALSE]

\* monitor_torrents once get_torrents returned the listing: what it leaves
\* behind and the calls it made. store_ok, removed_ok, priority_ok and
\* reannounce_ok say whether the store's statements, remove_torrents,
\* set_file_priority and reannounce_torrents succeed.
\* TorrentFile::new(id, priority, file_name); a file name is the sequence
\* of its parts, the last one being its extension if it has one.
TorrentFile(id, file_name) ==
  [id |-> id, priority |-> "AllowDownload", file_name |-> file_name]

\* str::ends_with
ends_with(name, suffix) ==
  /\ Len(suffix) <= Len(name)
  /\ SubSeq(name, Len(name) - Len(suffix) + 1, Len(name)) = suffix

\* config.valid_file_types
valid_file_types == {<<".mkv">>, <<".mp4">>}

\* What a torrent holds: no file yet, the film alone, or the film with a
\* text file named after it, a sample and a file without extension.
FileLists ==
  {None,
   Some(<<TorrentFile(0, <<"film", ".mkv">>)>>),
   Some(<<TorrentFile(0, <<"film", ".mkv">>),
          TorrentFile(1, <<"film", ".mkv", ".txt">>),
          TorrentFile(2, <<"sample", ".mp4">>),
          TorrentFile(3, <<"readme">>)>>)}

\* The ids of all the files of the torrent.
AllFileIds(contents) == [i \in 1..Len(contents) |-> contents[i].id]

\* files_to_remove: the ids of the files that end with no valid file type.
FilesToRemove(contents) ==
  LET Unwanted(content) == ~\E t \in valid_file_types : ends_with(content.file_name, t)
      unwanted == SelectSeq(contents, Unwanted)
  IN  [i \in 1..Len(unwanted) |-> unwanted[i].id]

\* A filter that lets every downloading or stalled torrent through.
IsCandidateAny(hash, state, filtered_clone, auto) == state \in {Downloading, Stalled}

\* A filter that lets the torrents through that were filtered before.
IsCandidateAgain(hash, state, filtered_clone, auto) ==
  hash \in auto /\ state \in {Downloading, Stalled}

\* The filter on the listing before the stall and file handling.
IsCandidate(hash, state, filtered_clone, auto) ==
  /\ hash \in auto
  /\ hash \notin filtered_clone
  /\ state \in {Downloading, Stalled}

\* The set_file_priority calls of `for torrent in torrents`, in its order.
RECURSIVE FileCalls(_, _, _, _)
FileCalls(vec, candidates, contents, priority_ok) ==
  IF vec = <<>> THEN <<>>
  ELSE LET h == Head(vec)
           ids == IF is_some(contents[h]) THEN FilesToRemove(unwrap(contents[h]))
                  ELSE <<>>
       IN  (IF h \in candidates /\ ids # <<>>
            THEN <<Call("set_file_priority", <<h, ids>>, priority_ok)>>
            ELSE <<>>)
           \o FileCalls(Tail(vec), candidates, contents, priority_ok)

monitor_torrents(listing, table, filtered, stalled, auto, contents, time_now, store_ok, removed_ok, priority_ok, reannounce_ok) ==
  LET hashes == DOMAIN listing
      vec == SelectSeq(HashOrder, LAMBDA h : h \in hashes)
      got == <<Call("get_torrents", hashes, TRUE)>>
  IN  IF hashes = {}
      THEN [table |-> IF store_ok THEN remove_all(table) ELSE table,
            filtered |-> filtered, stalled |-> stalled, auto |-> auto,
            removed |-> {}, reannounce |-> {},
            made |-> Append(got, Call("remove_all", {}, store_ok))]
      ELSE
        LET swept == IF store_ok
                     THEN remove_manually_removed(remove_all_finished(table), hashes)
                     ELSE table
            completed == {h \in hashes : listing[h] = Completed}
            filtered1 == filtered \ completed
            stalled1 == [h \in DOMAIN stalled |-> IF h \in completed THEN None ELSE stalled[h]]
            auto1 == auto \ completed
            updated == IF store_ok THEN UpdateAll(swept, listing, vec) ELSE swept
            candidates == {h \in hashes : IsCandidate(h, listing[h], filtered1, auto1)}
            looked == [h \in DOMAIN stalled |->
                         IF h \in candidates
                         THEN StalledEntry(stalled1[h], listing[h], time_now)
                         ELSE [entry |-> stalled1[h], reannounce |-> FALSE]]
            file_calls == FileCalls(vec, candidates, contents, priority_ok)
            torrents_to_reannounce == {h \in candidates : looked[h].reannounce}
        IN  [table |-> updated,
             filtered |-> filtered1 \cup {file_calls[i].arg[1] :
                                             i \in {j \in 1..Len(file_calls) : file_calls[j].ok}},
             stalled |-> [h \in DOMAIN stalled |-> looked[h].entry],
             auto |-> auto1,
             removed |-> IF removed_ok THEN completed ELSE {},
             reannounce |-> torrents_to_reannounce,
             made |-> got
                      \o <<Call("remove_all_finished",
                                Deleted(table, remove_all_finished(table), store_ok),
                                store_ok),
                           Call("remove_manually_removed",
                                Deleted(remove_all_finished(table), swept, store_ok),
                                store_ok)>>
                      \o (IF completed # {}
                          THEN <<Call("remove_torrents", completed, removed_ok)>> ELSE <<>>)
                      \o <<Call("update", hashes, store_ok)>>
                      \o file_calls
                      \o (IF torrents_to_reannounce # {}
                          THEN <<Call("reannounce_torrents", torrents_to_reannounce, reannounce_ok)>>
                          ELSE <<>>)]

InitMonitor ==
  /\ pc = "run"
  /\ EngineIdle
  /\ ClientIdle
  /\ ReconcileIdle
  /\ WatchlistIdle
  /\ active_downloads = <<>>
  /\ backend \in {"qbittorrent", "transmission"}
  /\ natives = [h \in Hashes |-> "gone"]
  /\ torrent_files \in [Hashes -> FileLists]
  /\ torrent_rx = {}
  /\ torrents_filtered = {}
  /\ stalled_torrents = [h \in Hashes |-> None]
  /\ auto_torrents = {}
  /\ now = 0
  /\ listed = None
  /\ made = <<>>
  /\ reannounced = {}
  /\ stalled_from = [h \in Hashes |-> None]

\* listed, made and reannounced describe the turn of the monitor that has
\* just ended; they are empty again once anything else has moved.
TurnOver ==
  /\ listed' = None
  /\ made' = <<>>
  /\ reannounced' = {}

\* find_downloads_and_start_imdb inserts the record of a torrent it found,
\* before it calls start_download.
InsertDownload ==
  /\ \E h \in DOMAIN natives :
       /\ natives[h] = "gone"
       /\ h \notin to_start
       /\ Len(active_downloads) < MaxRecords
       /\ active_downloads' = Append(active_downloads,
                                     DownloadRow("tt1", None, None, h, "_1080p"))
       /\ to_start' = to_start \cup {h}
  /\ UNCHANGED <<backend, natives, torrent_files, torrent_rx, torrents_filtered,
                 stalled_torrents, auto_torrents, now, stalled_from>>
  /\ TurnOver
  /\ UNCHANGED <<pc, engine_vars, reconcile_vars, watchlist_vars, connect_vars, add_vars,
                 mutex_vars>>

\* Torrenter::start_download: the hash is sent to the monitor's channel,
\* then the torrent is added to the client, which answers or fails; a
\* torrent the client holds already stays as it is.
StartDownload(ok) ==
  /\ \E h \in to_start :
       /\ torrent_rx' = torrent_rx \cup {h}
       /\ natives' = IF ok /\ natives[h] = "gone"
                     THEN [natives EXCEPT ![h] = "Downloading"] ELSE natives
       /\ to_start' = to_start \ {h}
  /\ UNCHANGED <<active_downloads, backend, torrent_files, torrents_filtered,
                 stalled_torrents, auto_torrents, now, stalled_from>>
  /\ TurnOver
  /\ UNCHANGED <<pc, engine_vars, reconcile_vars, watchlist_vars, connect_vars, add_vars,
                 mutex_vars>>

\* The backend moves a torrent to another status; a finished download stays
\* finished.
BackendMoves ==
  /\ \E h \in DOMAIN natives, status \in StatusesSeen(backend) :
       /\ natives[h] # "gone"
       /\ natives[h] # status
       /\ natives[h] \in FinishedStatuses(backend) => status \in FinishedStatuses(backend)
       /\ natives' = [natives EXCEPT ![h] = status]
  /\ UNCHANGED <<active_downloads, backend, torrent_files, torrent_rx, torrents_filtered,
                 stalled_torrents, auto_torrents, now, stalled_from>>
  /\ TurnOver
  /\ UNCHANGED <<pc, engine_vars, reconcile_vars, watchlist_vars, client_vars>>

\* The user adds a torrent in the client by hand.
UserAdds ==
  /\ \E h \in DOMAIN natives :
       /\ natives[h] = "gone"
       /\ natives' = [natives EXCEPT ![h] = "Downloading"]
  /\ UNCHANGED <<active_downloads, backend, torrent_files, torrent_rx, torrents_filtered,
                 stalled_torrents, auto_torrents, now, stalled_from>>
  /\ TurnOver
  /\ UNCHANGED <<pc, engine_vars, reconcile_vars, watchlist_vars, client_vars>>

\* The user removes a torrent in the client.
UserRemoves ==
  /\ \E h \in DOMAIN natives :
       /\ natives[h] # "gone"
       /\ natives' = [natives EXCEPT ![h] = "gone"]
  /\ UNCHANGED <<active_downloads, backend, torrent_files, torrent_rx, torrents_filtered,
                 stalled_torrents, auto_torrents, now, stalled_from>>
  /\ TurnOver
  /\ UNCHANGED <<pc, engine_vars, reconcile_vars, watchlist_vars, client_vars>>

\* Time passes between two ticks.
Sleep ==
  /\ now + Pace <= MaxNow
  /\ now' = now + Pace
  /\ UNCHANGED <<active_downloads, backend, natives, torrent_files, torrent_rx,
                 torrents_filtered, stalled_torrents, auto_torrents, stalled_from>>
  /\ TurnOver
  /\ UNCHANGED <<pc, engine_vars, reconcile_vars, watchlist_vars, client_vars>>

\* The drain of the channel before monitor_torrents: every pass of the
\* while loop takes the next hash or, the first tick of the new interval
\* being ready at once, ends the loop; `received` is what it took.
Drained == SUBSET torrent_rx

\* A turn on which get_torrents fails and the store is cleared as it is
\* for an empty listing.
MonitorTorrentsClears ==
  /\ \E received \in Drained :
       /\ auto_torrents' = auto_torrents \cup received
       /\ torrent_rx' = torrent_rx \ received
  /\ active_downloads' = remove_all(active_downloads)
  /\ listed' = None
  /\ made' = <<Call("get_torrents", {}, FALSE)>>
  /\ reannounced' = {}
  /\ UNCHANGED <<backend, natives, torrent_files, torrents_filtered,
                 stalled_torrents, now, stalled_from>>
  /\ UNCHANGED <<pc, engine_vars, reconcile_vars, watchlist_vars, client_vars>>

\* get_torrents fails after the drain received `received`: the hashes are
\* put into auto_torrents and monitor_torrents returns at once.
ListingFails(received) ==
  /\ auto_torrents' = auto_torrents \cup received
  /\ torrent_rx' = torrent_rx \ received
  /\ listed' = None
  /\ made' = <<Call("get_torrents", {}, FALSE)>>
  /\ reannounced' = {}
  /\ UNCHANGED <<active_downloads, backend, natives, torrent_files, torrents_filtered,
                 stalled_torrents, now, stalled_from>>
  /\ UNCHANGED <<engine_vars, reconcile_vars, watchlist_vars, client_vars>>

\* One turn of the monitor's loop on which get_torrents fails.
MonitorTorrentsFails ==
  /\ \E received \in Drained : ListingFails(received)
  /\ UNCHANGED pc

\* One turn of the monitor's loop on which qBittorrent lists its torrents
\* and client.contents fails for one of them: QbittorrentWrapper's
\* get_torrents returns that error, and monitor_torrents returns at once.
ContentsFails ==
  /\ backend = "qbittorrent"
  /\ \E h \in DOMAIN natives :
       /\ natives[h] # "gone"
       /\ made' = <<Call("contents", h, FALSE), Call("get_torrents", {}, FALSE)>>
  /\ \E received \in Drained :
       /\ auto_torrents' = auto_torrents \cup received
       /\ torrent_rx' = torrent_rx \ received
  /\ listed' = None
  /\ reannounced' = {}
  /\ UNCHANGED <<active_downloads, backend, natives, torrent_files, torrents_filtered,
                 stalled_torrents, now, stalled_from>>
  /\ UNCHANGED <<pc, engine_vars, reconcile_vars, watchlist_vars, client_vars>>

\* One turn of the monitor's loop: the drain puts what it received into
\* auto_torrents, then monitor_torrents runs on what the client lists.
Monitor(received, store_ok, removed_ok, priority_ok, reannounce_ok) ==
  /\ LET present == {h \in DOMAIN natives : natives[h] # "gone"}
         listing == [h \in present |-> Normalized(backend, natives[h])]
         tick == monitor_torrents(listing, active_downloads, torrents_filtered,
                                  stalled_torrents, auto_torrents \cup received,
                                  torrent_files, now, store_ok, removed_ok, priority_ok,
                                  reannounce_ok)
     IN  \E r \in {tick} :
           /\ listed' = Some(listing)
           /\ active_downloads' = r.table
           /\ torrents_filtered' = r.filtered
           /\ stalled_torrents' = r.stalled
           /\ auto_torrents' = r.auto
           /\ natives' = [h \in DOMAIN natives |-> IF h \in r.removed THEN "gone" ELSE natives[h]]
           /\ reannounced' = r.reannounce
           /\ made' = r.made
           /\ stalled_from' =
                [h \in DOMAIN natives |->
                   IF h \in present /\ listing[h] = Stalled
                   THEN IF is_some(stalled_from[h]) THEN stalled_from[h] ELSE Some(now)
                   ELSE None]
  /\ torrent_rx' = torrent_rx \ received
  /\ UNCHANGED <<backend, torrent_files, now>>
  /\ UNCHANGED <<pc, engine_vars, reconcile_vars, watchlist_vars, client_vars>>

\* The calls of the turn when every call is answered.
Asked(received) ==
  LET present == {h \in DOMAIN natives : natives[h] # "gone"}
      listing == [h \in present |-> Normalized(backend, natives[h])]
  IN  monitor_torrents(listing, active_downloads, torrents_filtered, stalled_torrents,
                       auto_torrents \cup received, torrent_files, now,
                       TRUE, TRUE, TRUE, TRUE).made

\* A call of the turn is answered or fails; a failure makes the turn shorter,
\* never longer, so there is no answer to draw for a call that is not in
\* `log`, the calls of the turn when every call is answered.
Answers(log, op) ==
  IF \E i \in DOMAIN log : log[i].op = op THEN BOOLEAN ELSE {TRUE}

MonitorTorrents ==
  \E received \in Drained :
    \E store_ok \in BOOLEAN, removed_ok \in Answers(Asked(received), "remove_torrents") :
      \E priority_ok \in Answers(Asked(received), "set_file_priority") :
        \E reannounce_ok \in Answers(Asked(received), "reannounce_torrents") :
          Monitor(received, store_ok, removed_ok, priority_ok, reannounce_ok)

NextMonitor ==
  \/ InsertDownload
  \/ \E ok \in BOOLEAN : StartDownload(ok)
  \/ BackendMoves
  \/ UserAdds
  \/ UserRemoves
  \/ Sleep
  \/ MonitorTorrentsFails
  \/ ContentsFails
  \/ MonitorTorrents

SpecMonitor == InitMonitor /\ [][NextMonitor]_vars

\* The loop of main never ends and sleeps a bounded time between two turns,
\* so a turn on which the client and the store answer is taken again and
\* again.
SpecMonitorLive == SpecMonitor /\ WF_vars(Monitor(torrent_rx, TRUE, TRUE, TRUE, TRUE))

\* ---------------------------------------------------------- Torrenter::new

\* The implementations with Transmission first.
transmission_first == <<"transmission", "qbittorrent">>

\* available_clients: the implementations in the order of the vec!.
available_clients == <<"qbittorrent", "transmission">>

\* username.is_empty() / password.is_empty(): the Option handed to initialise.
NonEmpty(is_empty, value) == IF is_empty THEN None ELSE Some(value)

\* TorrentClient::initialise of the two wrappers: qBittorrent's Api::new
\* answers or fails; Transmission first parses the address as a URL, then
\* asks for the session.
initialise(a, address_ok, up) ==
  IF a = "qbittorrent" THEN a \in up
  ELSE address_ok /\ a \in up

InitConnect ==
  /\ pc = "while"
  /\ EngineIdle
  /\ active_downloads = <<>>
  /\ ReconcileIdle
  /\ WatchlistIdle
  /\ MonitorIdle
  /\ AddIdle
  /\ StartIdle
  /\ MutexIdle
  /\ reachable \in SUBSET Range(available_clients)
  /\ rounds = 0
  /\ a_client = 1
  /\ initialised = {}
  /\ torrenter_client = None
  /\ attempts = <<>>
  /\ username_is_empty \in BOOLEAN
  /\ password_is_empty \in BOOLEAN
  /\ address_is_url \in BOOLEAN

\* A backend starts or stops answering while Torrenter::new waits.
BackendChanges ==
  /\ pc = "while"
  /\ \E a \in Range(available_clients) :
       reachable' = IF a \in reachable THEN reachable \ {a} ELSE reachable \cup {a}
  /\ UNCHANGED <<rounds, a_client, initialised, torrenter_client, attempts,
                 username_is_empty, password_is_empty, address_is_url>>
  /\ UNCHANGED <<pc, engine_vars, active_downloads, reconcile_vars, watchlist_vars,
                 monitor_vars, add_vars, start_vars, mutex_vars>>

\* One turn of `for mut a_client in available_clients`: initialise is
\* awaited; Ok selects the client and breaks, Err goes on to the next
\* implementation, and after the last one the while loop starts a round
\* with fresh wrappers.
Initialise ==
  /\ pc = "while"
  /\ LET a == available_clients[a_client]
         ok == initialise(a, address_is_url, reachable)
         call == [client |-> a,
                  username |-> NonEmpty(username_is_empty, "username"),
                  password |-> NonEmpty(password_is_empty, "password"),
                  ok |-> ok]
         last == a_client = Len(available_clients)
     IN  /\ attempts' = IF a_client = 1 THEN <<call>> ELSE Append(attempts, call)
         /\ IF ok
            THEN /\ initialised' = {a}
                 /\ torrenter_client' = Some(a)
                 /\ pc' = "break"
                 /\ UNCHANGED <<rounds, a_client>>
            ELSE /\ initialised' = {}
                 /\ a_client' = IF last THEN 1 ELSE a_client + 1
                 /\ rounds' = IF last /\ rounds < MaxRounds THEN rounds + 1 ELSE rounds
                 /\ UNCHANGED <<torrenter_client, pc>>
  /\ UNCHANGED <<reachable, username_is_empty, password_is_empty, address_is_url>>
  /\ UNCHANGED <<engine_vars, active_downloads, reconcile_vars, watchlist_vars,
                 monitor_vars, add_vars, start_vars, mutex_vars>>

\* `let client = client.unwrap(); Self { client, .. }`
ReturnTorrenter ==
  /\ pc = "break"
  /\ is_some(torrenter_client)
  /\ pc' = "returned"
  /\ UNCHANGED <<connect_vars, engine_vars, active_downloads, reconcile_vars,
                 watchlist_vars, monitor_vars, add_vars, start_vars, mutex_vars>>

NextConnect ==
  \/ BackendChanges
  \/ Initialise
  \/ ReturnTorrenter

SpecConnect == InitConnect /\ [][NextConnect]_vars

\* Torrenter::new is awaited by main and its loop holds no sleep: a turn of
\* the loop and the return after the break are always taken.
SpecConnectLive ==
  SpecConnect /\ WF_vars(Initialise) /\ WF_vars(ReturnTorrenter)

\* ------------------------------------------------ TorrentClient::add_torrents

\* The magnets handed to add_torrents.
MagnetUris == {"m1", "m2", "m3"}

\* QbittorrentWrapper::add_torrent / the torrent_add of TransmissionWrapper:
\* the backend takes the magnet or refuses it.
add_torrent(magnet, bad) == magnet \notin bad

\* QbittorrentWrapper::add_torrents: `self.add_torrent(magnet).await?` for
\* each magnet. The magnets tried, and the Result.
RECURSIVE qbittorrent_add_torrents(_, _)
qbittorrent_add_torrents(uris, bad) ==
  IF uris = <<>> THEN [tried |-> <<>>, ok |-> TRUE]
  ELSE IF ~add_torrent(Head(uris), bad)
  THEN [tried |-> <<Head(uris)>>, ok |-> FALSE]
  ELSE LET rest == qbittorrent_add_torrents(Tail(uris), bad)
       IN  [tried |-> <<Head(uris)>> \o rest.tried, ok |-> rest.ok]

\* TransmissionWrapper::add_torrents: torrent_add for each magnet,
\* `Err(err) => return Err(..)`.
RECURSIVE transmission_add_torrents(_, _)
transmission_add_torrents(uris, bad) ==
  IF uris = <<>> THEN [tried |-> <<>>, ok |-> TRUE]
  ELSE IF ~add_torrent(Head(uris), bad)
  THEN [tried |-> <<Head(uris)>>, ok |-> FALSE]
  ELSE LET rest == transmission_add_torrents(Tail(uris), bad)
       IN  [tried |-> <<Head(uris)>> \o rest.tried, ok |-> rest.ok]

InitAdd ==
  /\ pc = "call"
  /\ EngineIdle
  /\ active_downloads = <<>>
  /\ ReconcileIdle
  /\ WatchlistIdle
  /\ MonitorIdle
  /\ ConnectIdle
  /\ StartIdle
  /\ MutexIdle
  /\ add_client \in Range(available_clients)
  /\ magnet_uris \in SeqsUpTo(MagnetUris, MaxLen)
  /\ refused \in SUBSET MagnetUris
  /\ attempted = <<>>
  /\ add_result = "none"

\* client.add_torrents(magnet_uris).await
AddTorrents ==
  /\ pc = "call"
  /\ LET r == IF add_client = "qbittorrent"
              THEN qbittorrent_add_torrents(magnet_uris, refused)
              ELSE transmission_add_torrents(magnet_uris, refused)
     IN  /\ attempted' = r.tried
         /\ add_result' = IF r.ok THEN "Ok" ELSE "Err"
  /\ pc' = "done"
  /\ UNCHANGED <<add_client, magnet_uris, refused>>
  /\ UNCHANGED <<engine_vars, active_downloads, reconcile_vars, watchlist_vars,
                 monitor_vars, connect_vars, start_vars, mutex_vars>>

NextAdd == AddTorrents

SpecAdd == InitAdd /\ [][NextAdd]_vars

\* ------------------------------------------ main: the monitor of qBittorrent

\* State::as_ref: the name of the status in the API of qBittorrent, the
\* spelling remove_all_finished compares with.
as_ref(state) ==
  CASE state = "Error" -> "error"
    [] state = "MissingFiles" -> "missingFiles"
    [] state = "Uploading" -> "uploading"
    [] state = "PausedUP" -> "pausedUP"
    [] state = "QueuedUP" -> "queuedUP"
    [] state = "StalledUP" -> "stalledUP"
    [] state = "CheckingUP" -> "checkingUP"
    [] state = "ForcedUP" -> "forcedUP"
    [] state = "Allocating" -> "allocating"
    [] state = "Downloading" -> "downloading"
    [] state = "MetaDL" -> "metaDL"
    [] state = "PausedDL" -> "pausedDL"
    [] state = "QueuedDL" -> "queuedDL"
    [] state = "StalledDL" -> "stalledDL"
    [] state = "CheckingDL" -> "checkingDL"
    [] state = "ForceDL" -> "forcedDL"
    [] state = "CheckingResumeData" -> "checkingResumeData"
    [] state = "Moving" -> "moving"
    [] state = "Unknown" -> "unknown"

\* Torrent::magnet_uri: the magnet link of the torrent with this hash.
magnet_uri_of(hash) ==
  CASE hash = "h1" -> "magnet:?xt=urn:btih:h1&dn=film"
    [] OTHER -> "magnet:?xt=urn:btih:&dn="

\* for torrent in torrents.iter() { db.update(hash, state.as_ref(), ..) }
RECURSIVE MainUpdateAll(_, _, _)
MainUpdateAll(table, listing, hashes) ==
  IF hashes = <<>> THEN table
  ELSE MainUpdateAll(update(table, Head(hashes), <<as_ref(listing[Head(hashes)])>>),
                     listing, Tail(hashes))

\* stalled_torrents.entry(hash).and_modify(..).or_insert(..) of main.
MainStalledEntry(entry, state, time_now) ==
  LET thirty_minutes_ago == time_now - ThirtyMinutes
  IN  IF ~is_some(entry)
      THEN [entry |-> Some(<<state, time_now>>), reannounce |-> FALSE]
      ELSE IF unwrap(entry)[1] # state
      THEN [entry |-> Some(<<state, time_now>>), reannounce |-> FALSE]
      ELSE IF unwrap(entry)[1] = "StalledDL" /\ unwrap(entry)[2] <= thirty_minutes_ago
      THEN [entry |-> Some(<<state, time_now>>), reannounce |-> TRUE]
      ELSE [entry |-> entry, reannounce |-> FALSE]

\* A filter that takes every paused torrent as completed.
MainPaused(listing) == {h \in DOMAIN listing : listing[h] \in {"PausedUP", "PausedDL"}}

\* The torrents of the listing that main takes as completed.
MainCompleted(listing) == {h \in DOMAIN listing : listing[h] = "PausedUP"}

\* The set_file_priority calls of `for torrent in torrents` of main, where
\* client.contents answers or fails for each torrent.
RECURSIVE MainFileCalls(_, _, _, _, _)
MainFileCalls(vec, candidates, contents, contents_ok, priority_ok) ==
  IF vec = <<>> THEN <<>>
  ELSE LET h == Head(vec)
           ids == IF contents_ok /\ is_some(contents[h])
                  THEN FilesToRemove(unwrap(contents[h]))
                  ELSE <<>>
       IN  (IF h \in candidates /\ ids # <<>>
            THEN <<Call("set_file_priority", <<h, ids>>, priority_ok)>>
            ELSE <<>>)
           \o MainFileCalls(Tail(vec), candidates, contents, contents_ok, priority_ok)

\* monitor_torrents of main.rs once get_torrent_list returned the listing.
main_monitor_torrents(listing, table, filtered, stalled, auto, contents, time_now, store_ok, removed_ok, priority_ok, contents_ok, reannounce_ok) ==
  LET hashes == DOMAIN listing
      vec == SelectSeq(HashOrder, LAMBDA h : h \in hashes)
      got == <<Call("get_torrents", hashes, TRUE)>>
  IN  IF hashes = {}
      THEN [table |-> IF store_ok THEN remove_all(table) ELSE table,
            filtered |-> filtered, stalled |-> stalled, auto |-> auto,
            removed |-> {}, reannounce |-> {},
            made |-> Append(got, Call("remove_all", {}, store_ok))]
      ELSE
        LET swept == IF store_ok
                     THEN remove_manually_removed(remove_all_finished(table), hashes)
                     ELSE table
            completed == MainCompleted(listing)
            filtered1 == filtered \ completed
            stalled1 == [h \in DOMAIN stalled |-> IF h \in completed THEN None ELSE stalled[h]]
            auto1 == auto \ {magnet_uri_of(h) : h \in completed}
            updated == IF store_ok THEN MainUpdateAll(swept, listing, vec) ELSE swept
            candidates == {h \in hashes : /\ h \in auto1
                                          /\ h \notin filtered1
                                          /\ listing[h] \in {"Downloading", "StalledDL",
                                                             "ForceDL"}}
            looked == [h \in DOMAIN stalled |->
                         IF h \in candidates
                         THEN MainStalledEntry(stalled1[h], listing[h], time_now)
                         ELSE [entry |-> stalled1[h], reannounce |-> FALSE]]
            file_calls == MainFileCalls(vec, candidates, contents, contents_ok, priority_ok)
            torrents_to_reannounce == {h \in candidates : looked[h].reannounce}
        IN  [table |-> updated,
             filtered |-> filtered1 \cup {file_calls[i].arg[1] :
                                             i \in {j \in 1..Len(file_calls) : file_calls[j].ok}},
             stalled |-> [h \in DOMAIN stalled |-> looked[h].entry],
             auto |-> auto1,
             removed |-> IF removed_ok THEN completed ELSE {},
             reannounce |-> torrents_to_reannounce,
             made |-> got
                      \o <<Call("remove_all_finished",
                                Deleted(table, remove_all_finished(table), store_ok),
                                store_ok),
                           Call("remove_manually_removed",
                                Deleted(remove_all_finished(table), swept, store_ok),
                                store_ok)>>
                      \o (IF completed # {}
                          THEN <<Call("remove_torrents", completed, removed_ok)>> ELSE <<>>)
                      \o <<Call("update", hashes, store_ok)>>
                      \o file_calls
                      \o (IF torrents_to_reannounce # {}
                          THEN <<Call("reannounce_torrents", torrents_to_reannounce, reannounce_ok)>>
                          ELSE <<>>)]

InitMain ==
  /\ pc = "main"
  /\ EngineIdle
  /\ ClientIdle
  /\ ReconcileIdle
  /\ WatchlistIdle
  /\ active_downloads \in Leftovers
  /\ backend = "qbittorrent"
  /\ natives = [h \in Hashes |-> "gone"]
  /\ torrent_files \in [Hashes -> FileLists]
  /\ torrent_rx = {}
  /\ torrents_filtered = {}
  /\ stalled_torrents = [h \in Hashes |-> None]
  /\ auto_torrents = {}
  /\ now = 0
  /\ listed = None
  /\ made = <<>>
  /\ reannounced = {}
  /\ stalled_from = [h \in Hashes |-> None]

\* monitor_torrents of main.rs on what qBittorrent lists, after the drain
\* received `received`.
MainTurn(received, store_ok, removed_ok, priority_ok, contents_ok, reannounce_ok) ==
  /\ LET present == {h \in DOMAIN natives : natives[h] # "gone"}
         listing == [h \in present |-> natives[h]]
         tick == main_monitor_torrents(listing, active_downloads, torrents_filtered,
                                       stalled_torrents, auto_torrents \cup received,
                                       torrent_files, now, store_ok, removed_ok,
                                       priority_ok, contents_ok, reannounce_ok)
     IN  \E r \in {tick} :
           /\ listed' = Some(listing)
           /\ active_downloads' = r.table
           /\ torrents_filtered' = r.filtered
           /\ stalled_torrents' = r.stalled
           /\ auto_torrents' = r.auto
           /\ natives' = [h \in DOMAIN natives |-> IF h \in r.removed THEN "gone" ELSE natives[h]]
           /\ reannounced' = r.reannounce
           /\ made' = r.made
  /\ torrent_rx' = torrent_rx \ received
  /\ UNCHANGED <<backend, torrent_files, now, stalled_from>>
  /\ UNCHANGED <<engine_vars, reconcile_vars, watchlist_vars, client_vars>>

\* One turn of the loop of main: the drain, then monitor_torrents.
MainMonitor(received, store_ok, removed_ok, priority_ok, contents_ok, reannounce_ok) ==
  /\ MainTurn(received, store_ok, removed_ok, priority_ok, contents_ok, reannounce_ok)
  /\ UNCHANGED pc

\* The calls of the turn of main when every call is answered.
MainAsked(received) ==
  LET present == {h \in DOMAIN natives : natives[h] # "gone"}
      listing == [h \in present |-> natives[h]]
  IN  main_monitor_torrents(listing, active_downloads, torrents_filtered,
                            stalled_torrents, auto_torrents \cup received, torrent_files,
                            now, TRUE, TRUE, TRUE, TRUE, TRUE).made

MainMonitorTorrents ==
  \E received \in Drained :
    \E store_ok, contents_ok \in BOOLEAN :
      \E removed_ok \in Answers(MainAsked(received), "remove_torrents") :
        \E priority_ok \in Answers(MainAsked(received), "set_file_priority") :
          \E reannounce_ok \in Answers(MainAsked(received), "reannounce_torrents") :
            MainMonitor(received, store_ok, removed_ok, priority_ok, contents_ok,
                        reannounce_ok)

NextMain ==
  \/ InsertDownload
  \/ \E ok \in BOOLEAN : StartDownload(ok)
  \/ BackendMoves
  \/ UserAdds
  \/ UserRemoves
  \/ Sleep
  \/ MonitorTorrentsFails
  \/ MainMonitorTorrents

SpecMain == InitMain /\ [][NextMain]_vars

\* ------------------------------------------------ main: torrent_watcher

\* The torrents the watcher is looked at with.
WatchedHashes == {"h1", "h2"}

\* A receive that drops the hash it took.
RecvLoses(h) ==
  /\ pc = "select"
  /\ h \in torrent_rx
  /\ torrent_rx' = torrent_rx \ {h}
  /\ UNCHANGED <<active_downloads, backend, natives, torrent_files, torrents_filtered,
                 stalled_torrents, auto_torrents, now, listed, made, reannounced,
                 stalled_from>>
  /\ UNCHANGED <<pc, engine_vars, reconcile_vars, watchlist_vars, client_vars>>

\* The select! of the drain takes the branch of torrent_rx.recv(): the hash
\* is inserted into auto_torrents and the while loop goes on. The channel
\* hands the hashes out in the order they were sent; here it is the set of
\* the hashes under way.
Recv(h) ==
  /\ pc = "select"
  /\ h \in torrent_rx
  /\ torrent_rx' = torrent_rx \ {h}
  /\ auto_torrents' = auto_torrents \cup {h}
  /\ UNCHANGED <<active_downloads, backend, natives, torrent_files, torrents_filtered,
                 stalled_torrents, now, listed, made, reannounced, stalled_from>>
  /\ UNCHANGED <<pc, engine_vars, reconcile_vars, watchlist_vars, client_vars>>

\* The select! takes the branch of interval.tick(): the interval is new in
\* every turn of the loop and its first tick is ready at once, so the
\* branch is open in every pass of the while loop, which it ends.
IntervalTick ==
  /\ pc = "select"
  /\ pc' = "monitor"
  /\ UNCHANGED <<engine_vars, daemon_vars>>

\* monitor_torrents(..).await of the loop.
WatcherMonitor ==
  /\ pc = "monitor"
  /\ pc' = "sleep"
  /\ \/ ListingFails({})
     \/ \E store_ok, removed_ok, priority_ok, contents_ok, reannounce_ok \in BOOLEAN :
          MainTurn({}, store_ok, removed_ok, priority_ok, contents_ok, reannounce_ok)

\* tokio::time::sleep_until(Instant::now() + delay_dur).await
SleepUntil ==
  /\ pc = "sleep"
  /\ pc' = "select"
  /\ now' = IF now + Pace <= MaxNow THEN now + Pace ELSE now
  /\ UNCHANGED <<active_downloads, backend, natives, torrent_files, torrent_rx,
                 torrents_filtered, stalled_torrents, auto_torrents, listed, made,
                 reannounced, stalled_from>>
  /\ UNCHANGED <<engine_vars, reconcile_vars, watchlist_vars, client_vars>>

InitWatcher ==
  /\ pc = "select"
  /\ EngineIdle
  /\ ClientIdle
  /\ ReconcileIdle
  /\ WatchlistIdle
  /\ active_downloads = <<>>
  /\ backend = "qbittorrent"
  /\ natives = [h \in WatchedHashes |-> "gone"]
  /\ torrent_files = [h \in WatchedHashes |-> Some(<<TorrentFile(0, <<"film", ".mkv">>)>>)]
  /\ torrent_rx = {}
  /\ torrents_filtered = {}
  /\ stalled_torrents = [h \in WatchedHashes |-> None]
  /\ auto_torrents = {}
  /\ now = MaxNow
  /\ listed = None
  /\ made = <<>>
  /\ reannounced = {}
  /\ stalled_from = [h \in WatchedHashes |-> None]

NextWatcher ==
  \/ InsertDownload
  \/ \E ok \in BOOLEAN : StartDownload(ok)
  \/ UserRemoves
  \/ \E h \in WatchedHashes : Recv(h)
  \/ IntervalTick
  \/ WatcherMonitor
  \/ SleepUntil

SpecWatcher == InitWatcher /\ [][NextWatcher]_vars

\* The loop never ends: monitor_torrents returns, the sleep ends, and
\* select! picks at random among the branches that are ready, so the
\* branch of the tick is taken in the end, and so is the branch of recv for
\* the hash at the head of the channel if it is ready again and again.
SpecWatcherLive ==
  /\ SpecWatcher
  /\ WF_vars(IntervalTick)
  /\ WF_vars(WatcherMonitor)
  /\ WF_vars(SleepUntil)
  /\ \A h \in WatchedHashes : SF_vars(Recv(h))

\* ------------------------------------- TransmissionWrapper: the Mutex

\* The tasks that call the wrapper.
Tasks == {"monitor", "scheduler"}

\* The methods as what they do with the Mutex and the connection:
\* "lock" is client.lock().await, "unlock" the drop of the guard at the end
\* of its scope, the other steps are the requests of TransClient.
add_torrent_ops == <<"lock", "torrent_add", "unlock">>

add_torrents_ops == <<"lock", "torrent_add", "torrent_add", "unlock">>

remove_torrent_ops == <<"lock", "torrent_get", "unlock", "lock", "torrent_remove", "unlock">>

remove_torrents_ops == <<"lock", "torrent_get", "torrent_remove", "unlock">>

get_torrent_ops == <<"lock", "torrent_get", "unlock">>

get_torrents_ops == <<"lock", "torrent_get", "unlock">>

\* A set_file_priority that calls get_torrent with the guard in hand.
set_file_priority_nested == <<"lock">> \o get_torrent_ops \o <<"torrent_set", "unlock">>

set_file_priority_ops == get_torrent_ops \o <<"lock", "torrent_set", "unlock">>

reannounce_torrents_ops == <<"lock", "torrent_get", "torrent_action", "unlock">>

\* What the monitor calls in a turn, and what the watchlist task and the
\* handlers of the server call.
MethodsOf(task) ==
  IF task = "monitor"
  THEN {get_torrents_ops, remove_torrents_ops, set_file_priority_ops,
        reannounce_torrents_ops}
  ELSE {add_torrent_ops, add_torrents_ops, remove_torrent_ops, get_torrent_ops}

Requests == {"torrent_add", "torrent_get", "torrent_remove", "torrent_set", "torrent_action"}

InitMutex ==
  /\ pc = "transmission"
  /\ EngineIdle
  /\ active_downloads = <<>>
  /\ ReconcileIdle
  /\ WatchlistIdle
  /\ MonitorIdle
  /\ ConnectIdle
  /\ AddIdle
  /\ StartIdle
  /\ holder = None
  /\ waiters = <<>>
  /\ ops = [t \in Tasks |-> <<>>]
  /\ in_flight = {}

\* A task calls a method of the wrapper.
CallWrapper(t) ==
  /\ ops[t] = <<>>
  /\ \E method \in MethodsOf(t) : ops' = [ops EXCEPT ![t] = method]
  /\ UNCHANGED <<holder, waiters, in_flight>>

\* client.lock().await: the Mutex is taken if it is free and no task
\* waits in front; otherwise the task joins the queue.
Lock(t) ==
  /\ ops[t] # <<>>
  /\ Head(ops[t]) = "lock"
  /\ IF holder = None /\ (waiters = <<>> \/ Head(waiters) = t)
     THEN /\ holder' = Some(t)
          /\ waiters' = IF waiters = <<>> THEN <<>> ELSE Tail(waiters)
          /\ ops' = [ops EXCEPT ![t] = Tail(@)]
     ELSE /\ t \notin Range(waiters)
          /\ waiters' = Append(waiters, t)
          /\ UNCHANGED <<holder, ops>>
  /\ UNCHANGED in_flight

\* The request is sent on the connection.
Send(t) ==
  /\ ops[t] # <<>>
  /\ Head(ops[t]) \in Requests
  /\ t \notin in_flight
  /\ in_flight' = in_flight \cup {t}
  /\ UNCHANGED <<holder, waiters, ops>>

\* The request is answered: on Ok the method goes on, on Err it returns
\* the error and the guard is dropped.
Answer(t, ok) ==
  /\ t \in in_flight
  /\ in_flight' = in_flight \ {t}
  /\ IF ok
     THEN /\ ops' = [ops EXCEPT ![t] = Tail(@)]
          /\ UNCHANGED holder
     ELSE /\ ops' = [ops EXCEPT ![t] = <<>>]
          /\ holder' = IF holder = Some(t) THEN None ELSE holder
  /\ UNCHANGED waiters

\* The guard goes out of scope.
Unlock(t) ==
  /\ ops[t] # <<>>
  /\ Head(ops[t]) = "unlock"
  /\ holder' = IF holder = Some(t) THEN None ELSE holder
  /\ ops' = [ops EXCEPT ![t] = Tail(@)]
  /\ UNCHANGED <<waiters, in_flight>>

\* One step of a task inside the wrapper.
Step(t) == Lock(t) \/ Send(t) \/ (\E ok \in BOOLEAN : Answer(t, ok)) \/ Unlock(t)

NextMutex ==
  /\ \E t \in Tasks : CallWrapper(t) \/ Step(t)
  /\ UNCHANGED <<pc, engine_vars, active_downloads, reconcile_vars, watchlist_vars,
                 monitor_vars, connect_vars, add_vars, start_vars>>

SpecMutex == InitMutex /\ [][NextMutex]_vars

\* A task inside the wrapper is polled until its method returns, and
\* Transmission answers every request, with a result or with an error.
SpecMutexLive ==
  /\ SpecMutex
  /\ \A t \in Tasks :
       WF_vars(Step(t) /\ UNCHANGED <<pc, engine_vars, active_downloads, reconcile_vars, watchlist_vars, monitor_vars, connect_vars, add_vars, start_vars>>)

\* -------------------------------------------- TorrentClient::get_torrents

\* The torrents of a listing.
ListedHashes == {"h1", "h2"}

\* The status vocabulary of the backend behind a wrapper.
NativeStatuses(a) ==
  IF a = "qbittorrent" THEN QbittorrentStates ELSE TransmissionStatuses

InitListing ==
  /\ pc = "call"
  /\ EngineIdle
  /\ ClientIdle
  /\ active_downloads = <<>>
  /\ ReconcileIdle
  /\ WatchlistIdle
  /\ backend \in Range(available_clients)
  /\ natives \in [ListedHashes -> NativeStatuses(backend)]
  /\ torrent_files = <<>>
  /\ torrent_rx = {}
  /\ torrents_filtered = {}
  /\ stalled_torrents = <<>>
  /\ auto_torrents = {}
  /\ now = 0
  /\ listed = None
  /\ made = <<>>
  /\ reannounced = {}
  /\ stalled_from = <<>>

\* client.get_torrents().await: every torrent of the backend with its
\* status converted.
GetTorrents ==
  /\ pc = "call"
  /\ listed' = Some([h \in DOMAIN natives |-> Normalized(backend, natives[h])])
  /\ pc' = "done"
  /\ UNCHANGED <<backend, natives, torrent_files, torrent_rx, torrents_filtered,
                 stalled_torrents, auto_torrents, now, made, reannounced, stalled_from>>
  /\ UNCHANGED <<engine_vars, active_downloads, reconcile_vars, watchlist_vars,
                 client_vars>>

NextListing == GetTorrents

SpecListing == InitListing /\ [][NextListing]_vars

\* ------------------------------------------------------------ properties

\* The tiers in their documented total order.
Tier(q) ==
  CASE q = "Unknown" -> 0
    [] q = "Cam" -> 1
    [] q = "Telesync" -> 2
    [] q = "_480p" -> 3
    [] q = "_720p" -> 4
    [] q = "_1080p" -> 5
    [] q = "BetterThan1080p" -> 6
    [] q = "_2160p" -> 7
    [] q = "_4320p" -> 8

\* The documented provider order: movie-biased, show-biased, general.
FixedOrder == <<"YTS", "EZTV", "TheRARBG">>

\* The candidates at or above the floor that a provider returned; nothing
\* for a provider that failed or was not asked.
Usable(p) ==
  IF results[p] = None \/ ~unwrap(results[p]).ok THEN <<>>
  ELSE LET AtOrAbove(x) == Tier(x.quality) >= Tier(min_quality)
       IN  SelectSeq(unwrap(results[p]).items, AtOrAbove)

Done == pc = "done"

\* find_torrent has returned to its caller.
Returned == pc = "done" /\ ret \in {"Ok", "Err"}

\* C1: in both modes a candidate returned by a provider that was asked is in
\* the returned list if and only if its tier is at or above the floor in the
\* order Unknown < Cam < Telesync < 480p < 720p < 1080p < BetterThan1080p <
\* 2160p < 4320p.
C1_FloorFilter ==
  Returned =>
    \A p \in Providers :
      (results[p] # None /\ unwrap(results[p]).ok) =>
        \A i \in DOMAIN unwrap(results[p]).items :
          LET x == unwrap(results[p]).items[i]
          IN  (x \in Range(output)) <=> (Tier(x.quality) >= Tier(min_quality))

\* C1 witness: with the floor at BetterThan1080p a BetterThan1080p candidate
\* is returned and a 1080p candidate of the same provider is not.
C1_Witness ==
  /\ Returned
  /\ min_quality = "BetterThan1080p"
  /\ \E x \in Range(output) : x.quality = "BetterThan1080p"
  /\ \E p \in Providers :
       /\ results[p] # None
       /\ \E y \in Range(unwrap(results[p]).items) :
            y.quality = "_1080p" /\ y \notin Range(output)

\* C2: in sequential mode the providers are asked one at a time in the fixed
\* order YTS, EZTV, TheRARBG; the list returned is the post-floor list of the
\* first provider whose post-floor list is not empty, and no later provider
\* is asked; the Error comes only after all three were asked.
C2_SequentialFallback ==
  ~concurrent_search =>
    /\ calls = SubSeq(FixedOrder, 1, Len(calls))
    /\ finished = calls
    /\ (Done /\ ret = "Ok") =>
         LET n == Len(calls)
         IN  /\ n >= 1
             /\ output # <<>>
             /\ output = Usable(calls[n])
             /\ \A i \in 1..(n - 1) : Usable(calls[i]) = <<>>
             /\ \A i \in (n + 1)..Len(FixedOrder) : results[FixedOrder[i]] = None
    /\ (Done /\ ret = "Err") =>
         /\ calls = FixedOrder
         /\ \A p \in Providers : Usable(p) = <<>>

\* C2 witness: a sequential search where YTS gives nothing, EZTV gives a
\* candidate at or above the floor and TheRARBG is never asked.
C2_Witness ==
  /\ ~concurrent_search
  /\ Done
  /\ ret = "Ok"
  /\ calls = <<"YTS", "EZTV">>
  /\ results["TheRARBG"] = None
  /\ Len(output) >= 1

\* C3: in concurrent mode every provider is asked once and awaited, and the
\* returned list holds exactly the candidates at or above the floor of the
\* providers that succeeded.
C3_ConcurrentUnion ==
  (concurrent_search /\ Returned) =>
    /\ Len(calls) = Cardinality(Providers)
    /\ Range(calls) = Providers
    /\ Range(finished) = Providers
    /\ \A p \in Providers : results[p] # None
    /\ Range(output) = UNION {Range(Usable(p)) : p \in Providers}
    /\ Len(output) = Len(Usable("YTS")) + Len(Usable("EZTV")) + Len(Usable("TheRARBG"))

\* C3 witness: a concurrent search returning candidates of two providers
\* while a candidate below the floor is left out.
C3_Witness ==
  /\ concurrent_search
  /\ Done
  /\ \E x, y \in Range(output) : x.source # y.source
  /\ \E p \in Providers :
       \E z \in Range(unwrap(results[p]).items) : z \notin Range(output)

\* What the search is to return, read off the usable candidates alone.
Found ==
  IF concurrent_search
  THEN Usable("YTS") \o Usable("EZTV") \o Usable("TheRARBG")
  ELSE IF Usable("YTS") # <<>> THEN Usable("YTS")
  ELSE IF Usable("EZTV") # <<>> THEN Usable("EZTV")
  ELSE Usable("TheRARBG")

\* C4: a failure of a provider never aborts the search: in both modes the
\* search ends in Ok or in Error, in Error if and only if no provider gave a
\* candidate at or above the floor, and what it returns depends on a provider
\* only through its usable candidates, so a failed provider counts like one
\* that returned an empty list.
C4_FailureIsEmpty ==
  Done =>
    /\ ret \in {"Ok", "Err"}
    /\ (ret = "Err") <=> (\A p \in Providers : Usable(p) = <<>>)
    /\ (ret = "Ok") => (output = Found)
    /\ (~concurrent_search /\ ret = "Err") => calls = FixedOrder

\* The candidates a site's answer holds in a show search, as (season,
\* episode) pairs: for EZTV the seeded single-episode rows of a known
\* quality, a complete season being the pack -1; for TheRARBG every row.
Candidates(provider, raw) ==
  IF provider = "EZTV"
  THEN {<<unwrap(parse_i32(r.season)),
           IF r.complete /\ r.episode = "0" THEN -1 ELSE unwrap(parse_i32(r.episode))>> :
          r \in {t \in Range(raw.rows) :
                   t.seeds > 0 /\ ~t.multi /\ t.quality # "unknown"}}
  ELSE {<<unwrap(r.season), unwrap(r.episode)>> : r \in Range(raw.rows)}

\* The documented matching policy for the wanted set D.
Matches(s, e, D) ==
  \/ <<s, e>> \in D
  \/ e = -1 /\ \E d \in D : d[1] = s

\* C5: in a show search with wanted set D a candidate (s, e) of a provider's
\* listing is in the provider's result if and only if (s, e) is in D, or e is
\* -1 and some entry of D has season s.
C5_EpisodeMatching ==
  (pc = "searched" /\ is_some(tv_episodes)) =>
    \A p \in {"EZTV", "TheRARBG"} :
      (results[p] # None /\ ~unwrap(results[p]).panic) =>
        \A c \in Candidates(p, unwrap(response)) :
          (\E x \in Range(unwrap(results[p]).items) :
             x.season = Some(c[1]) /\ x.episode = Some(c[2]))
          <=> Matches(c[1], c[2], unwrap(tv_episodes))

\* a before b in the documented ranking; seed counts are compared where both
\* candidates have one.
Ranked(a, b) ==
  LET BySeeds ==
        \/ a.seeds = None
        \/ b.seeds = None
        \/ unwrap(a.seeds) >= unwrap(b.seeds)
      ByQuality ==
        \/ Tier(a.quality) > Tier(b.quality)
        \/ Tier(a.quality) = Tier(b.quality) /\ BySeeds
  IN  IF is_some(tv_episodes)
      THEN \/ unwrap(a.season) < unwrap(b.season)
           \/ /\ unwrap(a.season) = unwrap(b.season)
              /\ \/ unwrap(a.episode) < unwrap(b.episode)
                 \/ unwrap(a.episode) = unwrap(b.episode) /\ ByQuality
      ELSE ByQuality

\* C6: the list find_torrent returns is ranked, in both modes: a show by
\* season and episode ascending, then tier and seed count descending; a movie
\* by tier and seed count descending.
C6_Ranked ==
  (Done /\ ret = "Ok") =>
    \A i \in 1..(Len(output) - 1) : Ranked(output[i], output[i + 1])

\* Two candidates with the same deduplication key.
SameKey(a, b) ==
  IF is_some(tv_episodes)
  THEN a.season = b.season /\ a.episode = b.episode /\ a.quality = b.quality
  ELSE a.quality = b.quality

\* C7: after the deduplication of a ranked list no two adjacent candidates
\* share their key, and of every run of equal keys exactly the first entry
\* is left, whatever the seed counts.
C7_AdjacentDistinct ==
  (pc = "deduped") =>
    LET heads == {i \in DOMAIN output : i = 1 \/ ~SameKey(output[i - 1], output[i])}
    IN  /\ \A i \in 1..(Len(torrents) - 1) : ~SameKey(torrents[i], torrents[i + 1])
        /\ Len(torrents) = Cardinality(heads)
        /\ \A i \in heads : output[i] \in Range(torrents)

\* C8: in concurrent mode the merged list of a show search holds one
\* candidate per (season, episode, tier): no two candidates of different
\* providers share their key.
C8_OnePerKey ==
  (concurrent_search /\ Done /\ ret = "Ok" /\ is_some(tv_episodes)) =>
    \A i, j \in DOMAIN output :
      (i < j /\ output[i].source # output[j].source) =>
        ~SameKey(output[i], output[j])

\* C9: a second deduplication of a list that is sorted and deduplicated
\* returns the same list.
C9_Idempotent == (pc = "again") => torrents = output

\* C9 witness: the second deduplication has run on a list of several
\* candidates of which two adjacent ones have the same key.
C9_Witness ==
  /\ pc = "again"
  /\ Len(output) >= 2
  /\ \E i \in 1..(Len(output) - 1) : SameKey(output[i], output[i + 1])

\* The orders in which the three searches can complete.
CompletionOrders ==
  {o \in [1..Cardinality(Providers) -> Providers] : Range(o) = Providers}

Desired == Range(unwrap(missing_tv_episodes))

InFlight ==
  {x \in Desired :
     \E i \in 1..Len(active_downloads) :
        /\ active_downloads[i].imdb_id = imdb_id
        /\ active_downloads[i].season = Some(x.season)
        /\ active_downloads[i].episode = Some(x.episode)}

Replied == pc = "replied" /\ is_some(reply) /\ unwrap(reply).ok

\* C11: for a desired set D of N unique episodes of which K have an in-flight
\* record under the catalog id, a call of is_downloading that returns gives
\* (true, None) when K = N, (false, Some(D)) when K = 0, and (true, Some(R))
\* when 0 < K < N, R being D without the in-flight episodes, N - K entries.
C11_Reconcile ==
  (Replied /\ is_some(missing_tv_episodes)) =>
    LET r == unwrap(reply)
        N == Cardinality(Desired)
        K == Cardinality(InFlight)
    IN  /\ K = N => r.downloading /\ r.missing = None
        /\ K = 0 => /\ ~ r.downloading
                    /\ is_some(r.missing)
                    /\ Range(unwrap(r.missing)) = Desired
                    /\ Len(unwrap(r.missing)) = N
        /\ (0 < K /\ K < N) =>
                    /\ r.downloading
                    /\ is_some(r.missing)
                    /\ Range(unwrap(r.missing)) = Desired \ InFlight
                    /\ Len(unwrap(r.missing)) = N - K

\* Three episodes of two seasons are desired, one of them is in flight, and
\* the call returned the two others.
C11_Witness ==
  /\ Replied
  /\ is_some(missing_tv_episodes)
  /\ Desired = {IMDBEpisode(1, 1), IMDBEpisode(1, MaxIMDBEpisode),
                IMDBEpisode(MaxSeason, 1)}
  /\ InFlight = {IMDBEpisode(1, 1)}
  /\ unwrap(reply).downloading
  /\ Range(unwrap(unwrap(reply).missing))
       = {IMDBEpisode(1, MaxIMDBEpisode), IMDBEpisode(MaxSeason, 1)}

\* C12: with no desired set, a call of is_downloading that returns gives
\* (true, None) exactly if a record is persisted under the catalog id, and
\* (false, None) otherwise.
C12_MovieInProgress ==
  (Replied /\ missing_tv_episodes = None) =>
    LET r == unwrap(reply)
    IN  /\ r.missing = None
        /\ r.downloading <=>
             \E i \in 1..Len(active_downloads) :
                active_downloads[i].imdb_id = imdb_id

\* The store holds a record of another catalog id and then one of the id
\* asked about, and the call returned true.
C12_Witness ==
  /\ Replied
  /\ missing_tv_episodes = None
  /\ Len(active_downloads) = 2
  /\ active_downloads[1].imdb_id # imdb_id
  /\ active_downloads[2].imdb_id = imdb_id
  /\ unwrap(reply).downloading

\* --------------------------------------------------- the watchlist task
\* The item checked last, and what the task would ask is_downloading about it.
Checked == unwrap(checking)

WantedOf(item) == IF item._type = "Movie" THEN None ELSE Some(MissingOfShow)

\* The calls of the check that reach a provider, the store or the client.
Acquiring(e) == e.op \in {"find_torrent", "insert", "send", "add_torrent"}

\* C13: an item for which is_downloading would report (true, None) is
\* skipped by the pass: no provider search, no record persisted, no job
\* added for it.
C13_InFlightSkipped ==
  is_some(checking) =>
    LET r == is_downloading(before, Checked.id, WantedOf(Checked))
    IN  (r.downloading /\ r.missing = None) =>
          \A i \in 1..Len(trace) : ~Acquiring(trace[i])

\* The candidates of the check that pass the 1080p filter, and the jobs it
\* added.
PostFilter ==
  IF is_some(found_torrents) /\ unwrap(found_torrents).ok
  THEN LET Target(x) == x.quality = "_1080p"
       IN  SelectSeq(unwrap(found_torrents).items, Target)
  ELSE <<>>

AddedOk(e) == e.op = "add_torrent" /\ e.ok

JobsAdded == SelectSeq(trace, AddedOk)

UpdatedOk == \E i \in 1..Len(trace) : trace[i].op = "update_watchlist_item" /\ trace[i].ok

\* Every show that a pass was to check is on the watchlist.
ShowsKept ==
  /\ \A i \in 1..Len(remaining) :
       remaining[i]._type = "TvShow" => remaining[i] \in watchlist
  /\ (is_some(checking) /\ Checked._type = "TvShow") => Checked \in watchlist

\* C14 as stated: a movie is off the watchlist after its check exactly if the
\* check found a candidate after filtering and started a download; shows
\* stay.
C14_RemovedIffStarted ==
  /\ (is_some(checking) /\ Checked._type = "Movie") =>
       (Checked \notin watchlist <=> (Len(PostFilter) >= 1 /\ Len(JobsAdded) >= 1))
  /\ ShowsKept

\* C14: a movie is off the watchlist after its check exactly if the check
\* found at least one candidate after filtering, started the download of
\* every one of them, and the update of the watchlist flag succeeded; a movie
\* with no candidate after filtering stays; a show stays however its check
\* ends.
C14_RemovedIffAllStarted ==
  /\ (is_some(checking) /\ Checked._type = "Movie") =>
       /\ Checked \notin watchlist <=>
            /\ Len(PostFilter) >= 1
            /\ Len(JobsAdded) = Len(PostFilter)
            /\ UpdatedOk
       /\ PostFilter = <<>> => Checked \in watchlist
  /\ ShowsKept

\* A movie's check found two candidates after filtering, started both, and
\* took the movie off the watchlist.
C14_Witness ==
  /\ is_some(checking)
  /\ Checked._type = "Movie"
  /\ Len(PostFilter) = 2
  /\ Len(JobsAdded) = 2
  /\ Checked \notin watchlist

\* C15: no failure while an item is checked halts the task: the check ends
\* in Ok or Err, and the pass and the loop go on.
C15_NoItemHaltsThePass ==
  is_some(checking) => outcome # "panic"

\* C16: a job is handed to the client only after the record of its torrent
\* was persisted by the same check, and no job is handed over once an insert
\* has failed.
C16_RecordBeforeJob ==
  \A j \in 1..Len(trace) :
     trace[j].op = "add_torrent" =>
       /\ \E i \in 1..(j - 1) : /\ trace[i].op = "insert"
                                /\ trace[i].ok
                                /\ trace[i].torrent = trace[j].torrent
       /\ \A i \in 1..(j - 1) : trace[i].op = "insert" => trace[i].ok

\* C17: every job the task adds is of the target tier and, for a show, of
\* an episode numbered 0 or more: no season pack (-1) is added.
C17_TargetTierNoPacks ==
  \A j \in 1..Len(trace) :
     trace[j].op = "add_torrent" =>
       LET t == unwrap(trace[j].torrent)
       IN  /\ t.quality = "_1080p"
           /\ is_some(t.episode) => unwrap(t.episode) >= 0

\* The client listed no torrent on the last turn of the monitor.
ListedNone == is_some(listed) /\ DOMAIN unwrap(listed) = {}

\* C18: a turn of the monitor on which the client lists no torrent makes the
\* one call remove_all on the store after get_torrents, which (when the
\* statement succeeds) leaves no download record, makes no call on the
\* client, and leaves torrents_filtered, stalled_torrents and auto_torrents
\* as the drained channel left them.
C18_EmptyListingClears ==
  [][((\A h \in Hashes : natives[h] = "gone") /\ MonitorTorrents)
       => /\ Len(made') = 2
          /\ made'[1].op = "get_torrents"
          /\ made'[2].op = "remove_all"
          /\ made'[2].ok => active_downloads' = <<>>
          /\ torrents_filtered' = torrents_filtered
          /\ stalled_torrents' = stalled_torrents
          /\ auto_torrents' = auto_torrents \cup (torrent_rx \ torrent_rx')
          /\ natives' = natives
          /\ reannounced' = {}]_vars

\* A tracked torrent was removed in the client, and the turn that listed
\* nothing cleared the store and kept the torrent in auto_torrents.
C18_Witness ==
  /\ ListedNone
  /\ Len(made) = 2
  /\ made[2].op = "remove_all"
  /\ made[2].ok
  /\ active_downloads = <<>>
  /\ "h1" \in auto_torrents
  /\ is_some(stalled_torrents["h1"])

\* C19: a turn of the monitor queues a re-announce for a torrent only when
\* every turn of the last 30 minutes has listed it as Stalled.
C19_StallHysteresis ==
  [][MonitorTorrents
       => \A h \in reannounced' :
            /\ is_some(stalled_from'[h])
            /\ unwrap(stalled_from'[h]) + ThirtyMinutes <= now]_vars

\* The download of h has finished in the backend.
Finished(h) == natives[h] \in FinishedStatuses(backend)

\* h is in the backend no more and the store holds no record of it.
Destroyed(h) ==
  /\ natives[h] = "gone"
  /\ \A i \in 1..Len(active_downloads) : active_downloads[i].magnet_hash # h

\* C20: a torrent whose download has finished in the backend is in the end
\* removed from the backend and has no download record left, unless the
\* user takes it out of the client first.
C20_FinishedIsDestroyed ==
  \A h \in Hashes : [](Finished(h) => <>(Destroyed(h) \/ ~Finished(h)))

\* ------------------------------------------------------- the backend client

\* Torrenter::new has returned the Torrenter.
TorrenterReturned == pc = "returned"

\* The documented priority order of the implementations.
PriorityOrder == <<"qbittorrent", "transmission">>

\* The initialise of implementation a would succeed at this moment.
CanInitialise(a) == initialise(a, address_is_url, reachable)

\* Until an initialise call succeeds no client is held; the client held
\* after the loop is the one whose initialise call succeeded last in the
\* round, every earlier call of that round failed, and the calls of a round
\* go through the implementations in the priority order.
SelectsFirstInitialised ==
  /\ \A i \in 1..Len(attempts) : attempts[i].client = PriorityOrder[i]
  /\ pc = "while" => torrenter_client = None
  /\ pc \in {"break", "returned"} =>
       /\ is_some(torrenter_client)
       /\ initialised = {unwrap(torrenter_client)}
       /\ attempts # <<>>
       /\ attempts[Len(attempts)].ok
       /\ attempts[Len(attempts)].client = unwrap(torrenter_client)
       /\ \A i \in 1..(Len(attempts) - 1) : ~attempts[i].ok

\* C21: Torrenter::new returns only with a client whose initialise call
\* succeeded, the first one in the order qBittorrent, Transmission of the
\* round; it goes on round after round while every call fails, and it
\* returns once a call has succeeded, which happens when an implementation
\* can be initialised from some moment on.
C21_ReturnsInitialised ==
  /\ []SelectsFirstInitialised
  /\ [](pc = "break" => <>TorrenterReturned)
  /\ \A a \in Range(PriorityOrder) : (<>[]CanInitialise(a)) => <>TorrenterReturned

\* Both implementations failed for a whole round and qBittorrent failed
\* again before Transmission was initialised and returned.
C21_Witness ==
  /\ TorrenterReturned
  /\ rounds >= 1
  /\ torrenter_client = Some("transmission")
  /\ Len(attempts) = 2
  /\ ~attempts[1].ok

\* C23: add_torrents hands every magnet of its list to the backend, also the
\* ones that come after a magnet the backend refused.
C23_BestEffortPerItem ==
  add_result # "none" => attempted = magnet_uris

\* The variants of the normalized state.
NormalizedTags ==
  {"Starting", "Downloading", "Stalled", "Paused", "Completed", "Uploading",
   "StalledUpload", "Error", "Other"}

\* The statuses the wrappers have no state of their own for.
Unmapped(a) ==
  IF a = "qbittorrent"
  THEN {"CheckingUP", "Allocating", "CheckingDL", "CheckingResumeData", "Moving",
        "Unknown"}
  ELSE {"Verifying"}

\* C22: get_torrents returns a listing whatever the statuses of the
\* torrents are; every status is reported as one state of the normalized
\* enum, and a status without a state of its own as Other with a label.
C22_EveryStatusNormalized ==
  pc = "done" =>
    /\ is_some(listed)
    /\ DOMAIN unwrap(listed) = DOMAIN natives
    /\ \A h \in DOMAIN natives :
         LET state == unwrap(listed)[h]
         IN  /\ state.tag \in NormalizedTags
             /\ state.tag = "Other" <=> natives[h] \in Unmapped(backend)
             /\ state.tag = "Other" => is_some(state.arg)
             /\ state.tag \notin {"Other", "Error"} => state.arg = None

\* A qBittorrent listing with an unknown status next to a stalled one.
C22_Witness ==
  /\ pc = "done"
  /\ backend = "qbittorrent"
  /\ natives["h1"] = "Unknown"
  /\ unwrap(listed)["h1"] = Other("Unknown")
  /\ unwrap(listed)["h2"] = Stalled

\* ------------------------------------------------------------- the monitor

\* The calls of a turn that bring the store in line with the listing.
SyncOps == {"remove_all_finished", "remove_manually_removed", "update"}

\* The calls of a turn that handle files and stalls.
FilterOps == {"set_file_priority", "reannounce_torrents"}

\* C24: among the calls of one turn of the monitor every call that syncs
\* the store (the update of state and progress, the removal of orphaned and
\* of finished records) comes before the removal of the completed torrents
\* from the backend, and that removal before every set_file_priority call
\* and the re-announce.
C24_SyncThenRemovalThenFilter ==
  \A i, j \in DOMAIN made :
    /\ (made[i].op \in SyncOps /\ made[j].op = "remove_torrents") => i < j
    /\ (made[i].op = "remove_torrents" /\ made[j].op \in FilterOps) => i < j

\* C25: on a turn that lists a tracked torrent with a state other than the
\* one its stalled_torrents entry holds, the entry takes the listed state
\* and the time of the turn.
C25_ResetOnEveryChange ==
  [][MonitorTorrents
       => \A h \in Hashes :
            (/\ h \in DOMAIN unwrap(listed')
             /\ h \in auto_torrents \cup torrent_rx
             /\ is_some(stalled_torrents[h])
             /\ unwrap(stalled_torrents[h])[1] # unwrap(listed')[h])
            => stalled_torrents'[h] = Some(<<unwrap(listed')[h], now>>)]_vars

\* The states of a record that remove_all_finished takes as finished.
FinishedRecord(row) == row.state \in {Some(<<"pausedUP">>), Some(<<"forcedUP">>)}

\* The torrents the backend holds.
Present == {h \in Hashes : natives[h] # "gone"}

C27_EveryListedJobHasRecord ==
  [][\/ \A h \in Present :
          \E i \in 1..Len(active_downloads') :
            /\ active_downloads'[i].magnet_hash = h
            /\ active_downloads'[i].state
                 = Some(state_to_string(Normalized(backend, natives[h])))
     \/ ~(/\ Present # {}
          /\ Len(made') >= 3
          /\ made'[2].ok
          /\ MonitorTorrents)]_vars

\* The torrents the monitor of main takes as completed.
ListedCompleted == {h \in Present : natives[h] = "PausedUP"}

\* C28: on a turn that lists a torrent as completed the monitor asks the
\* backend to remove it, and after the turn the torrent is in none of
\* torrents_filtered, stalled_torrents and auto_torrents.
C28_CompletedIsDropped ==
  [][\/ \A h \in ListedCompleted :
          /\ \E i \in 1..Len(made') :
               made'[i].op = "remove_torrents" /\ h \in made'[i].arg
          /\ h \notin torrents_filtered'
          /\ stalled_torrents'[h] = None
          /\ h \notin auto_torrents'
     \/ ~(ListedCompleted # {} /\ MainMonitorTorrents)]_vars

\* The set_file_priority calls among the calls of the last turn.
FileCallsMade(log) ==
  {log[i] : i \in {j \in 1..Len(log) : log[j].op = "set_file_priority"}}

\* The ids of the files of h whose name ends with none of the valid file
\* types.
DisallowedIds(h) ==
  IF ~is_some(torrent_files[h]) THEN {}
  ELSE {f.id : f \in {g \in Range(unwrap(torrent_files[h])) :
                        \A t \in valid_file_types : ~ends_with(g.file_name, t)}}

\* C29: every set_file_priority call of a turn is for a torrent that is in
\* auto_torrents, is not in torrents_filtered and is listed as Downloading
\* or Stalled; it passes each id of a file that ends with no valid file
\* type once and no other id, and it is not made without such an id.
C29_FilePriorityOnlyForCandidates ==
  [][\/ \A call \in FileCallsMade(made') :
          LET h == call.arg[1]
              ids == call.arg[2]
          IN  /\ h \in auto_torrents \cup torrent_rx
              /\ h \notin torrents_filtered
              /\ h \in Present
              /\ Normalized(backend, natives[h]) \in {Downloading, Stalled}
              /\ ids # <<>>
              /\ Range(ids) = DisallowedIds(h)
              /\ Cardinality(Range(ids)) = Len(ids)
     \/ ~MonitorTorrents]_vars

\* The text file named after the film and the file without extension were
\* disallowed, the film and the sample were not.
C29_Witness ==
  /\ Call("set_file_priority", <<"h1", <<1, 3>>>>, TRUE) \in FileCallsMade(made)
  /\ "h1" \in torrents_filtered

\* C30: a turn that calls set_file_priority for a torrent with success puts
\* it in torrents_filtered and a turn whose call fails does not; a torrent
\* in torrents_filtered stays there and no turn calls set_file_priority for
\* it again.
C30_FilteredOnce ==
  [][\/ \A h \in Hashes :
          /\ h \in torrents_filtered
               => /\ h \in torrents_filtered'
                  /\ \A call \in FileCallsMade(made') : call.arg[1] # h
          /\ h \notin torrents_filtered
               => (h \in torrents_filtered'
                     <=> \E call \in FileCallsMade(made') : call.arg[1] = h /\ call.ok)
     \/ ~MonitorTorrents]_vars

\* A filtered torrent that still holds unwanted files was listed as
\* Downloading and the turn made no set_file_priority call.
C30_Witness ==
  /\ "h1" \in torrents_filtered
  /\ "h1" \in auto_torrents
  /\ DisallowedIds("h1") # {}
  /\ is_some(listed)
  /\ "h1" \in DOMAIN unwrap(listed)
  /\ unwrap(listed)["h1"] = Downloading
  /\ FileCallsMade(made) = {}

\* The calls of the last turn that concern one torrent or one record.
JobOps == {"contents", "set_file_priority", "update", "remove_torrents"}

\* C31: on a turn on which a call that concerns a single torrent fails
\* (the fetch of its file list, set_file_priority, the update of its
\* record, its removal from the client) monitor_torrents still goes on: it
\* holds the listing and updates the records of the listed torrents.
C31_JobFailureNeverStopsTheTurn ==
  [][\/ \A i \in 1..Len(made') :
          (made'[i].op \in JobOps /\ ~made'[i].ok)
            => /\ is_some(listed')
               /\ \E j \in 1..Len(made') : made'[j].op = "update"
     \/ ~(MonitorTorrents \/ ContentsFails)]_vars

\* The positions of the reannounce_torrents calls among the calls of a turn.
Reannounces(log) == {i \in 1..Len(log) : log[i].op = "reannounce_torrents"}

\* The torrents a turn queues for a re-announce: the candidates that are
\* listed as Stalled and whose entry has said Stalled for thirty minutes.
Queued ==
  {h \in Present :
     /\ h \in auto_torrents'
     /\ h \notin torrents_filtered
     /\ Normalized(backend, natives[h]) = Stalled
     /\ is_some(stalled_torrents[h])
     /\ unwrap(stalled_torrents[h])[1] = Stalled
     /\ unwrap(stalled_torrents[h])[2] <= now - ThirtyMinutes}

\* What the turn under way would have left had its reannounce_torrents
\* call succeeded.
SucceededTurn(store_ok, removed_ok, priority_ok) ==
  monitor_torrents([h \in Present |-> Normalized(backend, natives[h])], active_downloads, torrents_filtered, stalled_torrents, auto_torrents \cup (torrent_rx \ torrent_rx'), torrent_files, now, store_ok, removed_ok, priority_ok, TRUE)

C34_StallTrackingOnlyForCandidates ==
  [][\/ \A h \in Hashes :
          (\/ h \notin auto_torrents'
           \/ h \in torrents_filtered
           \/ h \notin Present
           \/ Normalized(backend, natives[h]) \notin {Downloading, Stalled})
            => /\ stalled_torrents'[h] = stalled_torrents[h]
               /\ h \notin reannounced'
               /\ \A i \in Reannounces(made') : h \notin made'[i].arg
     \/ ~MonitorTorrents]_vars

\* A torrent added by hand was listed as Stalled and got no entry; or a
\* filtered torrent kept the entry it had as a downloading one while it was
\* listed as Stalled.
C34_Witness ==
  /\ is_some(listed)
  /\ "h1" \in DOMAIN unwrap(listed)
  /\ unwrap(listed)["h1"] = Stalled
  /\ \/ "h1" \notin auto_torrents /\ stalled_torrents["h1"] = None
     \/ /\ "h1" \in torrents_filtered
        /\ is_some(stalled_torrents["h1"])
        /\ unwrap(stalled_torrents["h1"])[1] = Downloading

\* C35: a turn on which get_torrents fails makes no other call and leaves
\* the store, torrents_filtered and stalled_torrents as they were and
\* auto_torrents as the drain left it.
C35_ListingFailureChangesNothing ==
  [][(MonitorTorrentsFails \/ ContentsFails)
       => /\ active_downloads' = active_downloads
          /\ torrents_filtered' = torrents_filtered
          /\ stalled_torrents' = stalled_torrents
          /\ auto_torrents' = auto_torrents \cup (torrent_rx \ torrent_rx')
          /\ natives' = natives
          /\ \A i \in 1..Len(made') : made'[i].op \in {"contents", "get_torrents"}]_vars

\* The listing failed while the client held no torrent, and the records
\* are still in the store.
C35_Witness ==
  /\ made = <<Call("get_torrents", {}, FALSE)>>
  /\ Present = {}
  /\ active_downloads # <<>>

\* A download record of the torrent is in the store.
HasRecord(table, hash) == \E i \in 1..Len(table) : table[i].magnet_hash = hash

\* C36: when start_download returns and the torrent it was called for is
\* in the client, the record inserted before the call is in the store.
C36_RecordSurvivesTheStart ==
  [][\A h \in to_start \ to_start' :
       natives'[h] # "gone" => HasRecord(active_downloads', h)]_vars

\* C37: when start_download fails to add a torrent whose hash was neither
\* in the channel nor in auto_torrents, the hash is in neither after the
\* call.
C37_FailedStartLeavesNoHash ==
  [][\A h \in to_start \ to_start' :
       (natives'[h] = "gone" /\ h \notin torrent_rx \cup auto_torrents)
         => h \notin torrent_rx' \cup auto_torrents']_vars

StalledKeys == {h \in DOMAIN stalled_torrents : is_some(stalled_torrents[h])}

\* C40: torrents_filtered and the keys of stalled_torrents are subsets of
\* auto_torrents.
C40_FilteredAndStalledWithinAuto ==
  /\ torrents_filtered \subseteq auto_torrents
  /\ StalledKeys \subseteq auto_torrents

\* A torrent is in all three sets.
C40_Witness ==
  /\ "h1" \in torrents_filtered
  /\ "h1" \in StalledKeys
  /\ "h1" \in auto_torrents

\* C32: every hash sent on the channel is inserted into auto_torrents in
\* the end; in every pass of the drain the branch that ends it is open, so
\* the drain waits for no hash; and every drain ends, monitor_torrents
\* being called after it.
C32_DrainLosesNothingAndEnds ==
  /\ \A h \in WatchedHashes : [](h \in torrent_rx => <>(h \in auto_torrents))
  /\ [](pc = "select" => ENABLED IntervalTick)
  /\ [](pc = "select" => <>(pc = "monitor"))

\* Both hashes were sent and added to the client, and both are in
\* auto_torrents when a drain has ended.
C32_Witness ==
  /\ pc = "monitor"
  /\ torrent_rx = {}
  /\ auto_torrents = WatchedHashes
  /\ \A h \in WatchedHashes : natives[h] = "Downloading"

\* C38: a request of a task is on the connection only while the task
\* holds the Mutex, so no two requests are on it at once; and every call of
\* a method of the wrapper returns, set_file_priority with its two locks
\* included.
C38_MutexSerialisesAndNeverDeadlocks ==
  /\ [](\A t \in in_flight : holder = Some(t))
  /\ [](Cardinality(in_flight) <= 1)
  /\ \A t \in Tasks : [](ops[t] # <<>> => <>(ops[t] = <<>>))

\* The monitor holds the Mutex for the second time in set_file_priority,
\* its request is on the connection, and the scheduler waits for the Mutex.
C38_Witness ==
  /\ holder = Some("monitor")
  /\ ops["monitor"] = <<"torrent_set", "unlock">>
  /\ "monitor" \in in_flight
  /\ waiters = <<"scheduler">>

====
